---- MODULE Spec2Model ----
(***************************************************************************)
(* The Canadian Forest Fire Weather Index transfer functions of cffdrs:    *)
(* the scalar functions of fwi.py, their array counterparts of             *)
(* fwi_numpy.py and the raster Buildup Index of raster/.                   *)
(*                                                                         *)
(* Numbers.  The program computes in IEEE-754 doubles.  Here a number is   *)
(* an integer counting thousandths (Q == 1000 stands for 1.0), so 1.1 is   *)
(* 1100 and a comparison of the code such as temp < 1.1 is temp < 1100.    *)
(* Products and quotients truncate toward zero to the next thousandth.     *)
(* A decimal literal of the code that has more than three decimals         *)
(* (0.0365, 0.05039) multiplies as the exact fraction it denotes (Scl).    *)
(* exp, log, sqrt and ** are evaluated by series in the same fixed point.  *)
(***************************************************************************)
EXTENDS Integers, Sequences, FiniteSets, TLC

\* One unit (1.0) in thousandths.
Q == 10 * 10 * 10

Abs(a) == IF a < 0 THEN -a ELSE a
Sgn(a) == IF a < 0 THEN -1 ELSE 1
Min2(a, b) == IF a < b THEN a ELSE b
Max2(a, b) == IF a > b THEN a ELSE b

\* |a| * n / d, truncated, without leaving 32 bits: d * n must stay below 2^31.
SclAbs(a, n, d) == (a \div d) * n + ((a % d) * n) \div d

\* a * (n / d) for a literal n/d of the code, n and d positive integers.
Scl(a, n, d) == Sgn(a) * SclAbs(Abs(a), n, d)

\* a * b of two numbers; the larger operand is split so the product fits.
FMul(a, b) ==
  Sgn(a) * Sgn(b) * SclAbs(Max2(Abs(a), Abs(b)), Min2(Abs(a), Abs(b)), Q)

\* |a| / |b| for b > 0; a divisor too wide to split drops its last digit
\* together with the dividend's.
RECURSIVE FDivAbs(_, _)
FDivAbs(a, b) ==
  IF b < 2000 * Q THEN SclAbs(a, Q, b) ELSE FDivAbs(a \div 10, b \div 10)

\* a / b of two numbers, b # 0.
FDiv(a, b) == Sgn(a) * Sgn(b) * FDivAbs(Abs(a), Abs(b))

\* ---- exp ----------------------------------------------------------------
\* e^n for n = 0..13, in thousandths.
ExpInt ==
  <<1000, 2718, 7389, 20086, 54598, 148413, 403429, 1096633, 2980958,
    8103084, 22026466, 59874142, 162754791, 442413392>>

\* The Taylor series of e^r for 0 <= r < 1: term is r^(k-1)/(k-1)!.
RECURSIVE ExpSeries(_, _, _, _)
ExpSeries(r, k, term, acc) ==
  IF term = 0 \/ k > 12 THEN acc
  ELSE ExpSeries(r, k + 1, (term * r + (k * Q) \div 2) \div (k * Q), acc + term)

ExpPos(x) ==
  LET n == x \div Q
      f == ExpSeries(x % Q, 1, Q, 0)
  IN  IF n = 0 THEN f ELSE SclAbs(ExpInt[n + 1], f, Q)

\* math.exp / np.exp.  e^x is below one thousandth for x < -7.
Exp(x) ==
  IF x >= 0 THEN ExpPos(x)
  ELSE IF x < -14 * Q THEN 0
  ELSE (Q * Q) \div ExpPos(-x)

\* a * exp(x).  For x < 0 the product is formed as a / exp(-x), the same
\* number, so that a small exponential does not vanish before it is scaled.
MulExp(a, x) ==
  IF x >= 0 THEN FMul(a, ExpPos(x))
  ELSE IF x < -13 * Q THEN 0
  ELSE FDiv(a, ExpPos(-x))

\* ---- log ----------------------------------------------------------------
\* ln 2 in thousandths of a thousandth is 693147; kept to thousandths per step.
RECURSIVE LnNorm(_, _)
\* y = m * 2^k with Q <= m < 2Q: returns <<m, k>>.
LnNorm(y, k) ==
  IF y >= 2 * Q THEN LnNorm(y \div 2, k + 1)
  ELSE IF y < Q THEN LnNorm(y * 2, k - 1)
  ELSE <<y, k>>

\* 2 * atanh(z) = 2 (z + z^3/3 + z^5/5 + ...), z in millionths, 0 <= z <= 1/3.
LnMant(m) ==
  LET M  == Q * Q
      z  == ((m - Q) * M) \div (m + Q)
      z2 == ((z \div Q) * (z \div Q))
      z3 == (z * (z2 \div Q)) \div (M \div Q)
      z5 == (z3 * (z2 \div Q)) \div (M \div Q)
      z7 == (z5 * (z2 \div Q)) \div (M \div Q)
      z9 == (z7 * (z2 \div Q)) \div (M \div Q)
  IN  2 * (z + z3 \div 3 + z5 \div 5 + z7 \div 7 + z9 \div 9)

\* math.log / np.log of y > 0 (natural logarithm), in thousandths.
Ln(y) ==
  LET mk == LnNorm(y, 0)
      v  == mk[2] * 693147 + LnMant(mk[1])
  IN  Sgn(v) * ((Abs(v) + Q \div 2) \div Q)

\* ---- sqrt and powers ----------------------------------------------------
RECURSIVE ISqrt(_, _, _)
\* The largest r in lo..hi with r * r <= n.
ISqrt(n, lo, hi) ==
  IF lo >= hi THEN lo
  ELSE LET mid == (lo + hi + 1) \div 2
       IN  IF mid * mid <= n THEN ISqrt(n, mid, hi) ELSE ISqrt(n, lo, mid - 1)

\* math.sqrt / np.sqrt / x ** 0.5 of a >= 0.
Sqrt(a) == ISqrt(a * Q, 0, 46340)

\* x ** n for an integer literal n >= 1 (repeated product).
RECURSIVE IPow(_, _)
IPow(x, n) == IF n = 1 THEN x ELSE FMul(IPow(x, n - 1), x)

\* x ** (n/d) for x >= 0 and a positive literal exponent n/d: e^((n/d) ln x).
Pow(x, n, d) == IF x = 0 THEN 0 ELSE Exp(Scl(Ln(x), n, d))

\* 10 ** x: e^(x ln 10), ln 10 = 2.3026.
Pow10(x) == Exp(Scl(x, 23026, 10000))

\* ---- results ------------------------------------------------------------
\* What a call ends with: a returned value, or the exception it raised with
\* the field its message names and the value the message shows.
Ok(v) == [kind |-> "ok", field |-> "", val |-> v]
Raise(k, f, v) == [kind |-> k, field |-> f, val |-> v]

\* raise ValueError(f'Invalid <field>: {<value>}')
Invalid(f, v) == Raise("ValueError", f, v)

\* x = hi if (x > hi) else x
Cap(v, hi) == IF v > hi THEN hi ELSE v
\* x = 0 if (x < 0) else x
Floor0(v) == IF v < 0 THEN 0 ELSE v

\* ======================= fwi.py: the scalar functions ====================

\* FFMC_COEFFICIENT = 250.0 * 59.5 / 101.0
FFMC_COEFFICIENT == (250 * 59500) \div 101

\* Eq. 1 (and Eq. 10 of isi): c * (101 - ffmc) / (59.5 + ffmc)
ffmc_eq1(c, f) == FDiv(FMul(101 * Q - f, c), 59500 + f)

\* 42.5 * ra * exp(-100 / (251 - wmo)) * (1 - exp(-6.93 / ra)), ra > 0
ffmc_absorb(wmo, ra) ==
  FMul(MulExp(Scl(ra, 425, 10), FDiv(-100 * Q, 251 * Q - wmo)),
       Q - Exp(FDiv(-6930, ra)))

\* 0.0015 * (wmo - 150) * (wmo - 150) * sqrt(ra)
ffmc_corr(wmo, ra) ==
  FMul(FMul(Scl(wmo - 150 * Q, 15, 10000), wmo - 150 * Q), Sqrt(ra))

\* Eq. 2 without the loss in the canopy: ra = prec.
ffmc_ra_no_canopy(prec) == prec

\* Eq. 2: ra = (prec - 0.5) if (prec > 0.5) else prec
ffmc_ra(prec) == IF prec > 500 THEN prec - 500 ELSE prec

\* Eqs. 3a and 3b: the rain step of ffmc on the moisture wmo of Eq. 1.
ffmc_rain(wmo, ra, prec) ==
  IF prec > 500
  THEN (IF wmo > 150 * Q
        THEN wmo + ffmc_corr(wmo, ra) + ffmc_absorb(wmo, ra)
        ELSE wmo + ffmc_absorb(wmo, ra))
  ELSE wmo

\* 0.18 * (21.1 - temp) * (1 - 1 / exp(rh * 0.115)), shared by Eq. 4 and Eq. 5.
ffmc_tempterm(temp, rh) ==
  FMul(Scl(21100 - temp, 18, 100), Q - FDiv(Q, Exp(Scl(rh, 115, 1000))))

\* Eq. 4 Equilibrium moisture content from drying
ffmc_ed(temp, rh) ==
  Scl(Pow(rh, 679, 1000), 942, 1000) + 11 * Exp((rh - 100 * Q) \div 10)
    + ffmc_tempterm(temp, rh)

\* Eq. 5 Equilibrium moisture content from wetting
ffmc_ew(temp, rh) ==
  Scl(Pow(rh, 753, 1000), 618, 1000) + 10 * Exp((rh - 100 * Q) \div 10)
    + ffmc_tempterm(temp, rh)

\* 0.424 * (1 - h ** 1.7) + 0.0694 * sqrt(ws) * (1 - h ** 8): Eq. 6a with
\* h = (100 - rh) / 100 and Eq. 7a with h = rh / 100.
ffmc_lograte(h, ws) ==
  Scl(Q - Pow(h, 17, 10), 424, 1000)
    + FMul(Scl(Sqrt(ws), 694, 10000), Q - (IF h = 0 THEN 0 ELSE IPow(h, 8)))

\* Eqs. 6b and 7b: x = z * 0.581 * exp(0.0365 * temp)
ffmc_x(z, temp) == FMul(Scl(z, 581, 1000), Exp(Scl(temp, 365, 10000)))

\* 10 ** x is beyond the largest double (1.797e308) when x > 308.254: the
\* Python float power raises OverflowError, the numpy power gives inf.
Pow10Overflows(x) == x > 308254

\* 10 ** x with x = z * 0.581 * exp(0.0365 * temp)  (Eqs. 6b and 7b)
ffmc_rate(z, temp) == Pow10(ffmc_x(z, temp))

\* d / 10 ** x for a moisture difference d (|d| < 500): below half a
\* thousandth, so 0 here, once x > 6.
ffmc_quot(d, z, temp) ==
  IF ffmc_x(z, temp) > 6000 THEN 0 ELSE FDiv(d, ffmc_rate(z, temp))

\* Eq. 6a, taken when wmo < ed and wmo < ew, else z = 0
ffmc_z1(wmo, ed, ew, rh, ws) ==
  IF wmo < ed /\ wmo < ew THEN ffmc_lograte((100 * Q - rh) \div 100, ws) ELSE 0

\* Eq. 8: wm = ew - (ew - wmo) / 10 ** x if (wmo < ed and wmo < ew) else wmo
ffmc_wm1(wmo, ed, ew, z, temp) ==
  IF wmo < ed /\ wmo < ew THEN ew - ffmc_quot(ew - wmo, z, temp) ELSE wmo

\* Eq. 7a, taken when wmo > ed, else z stays
ffmc_z2(wmo, ed, rh, ws, z) ==
  IF wmo > ed THEN ffmc_lograte(rh \div 100, ws) ELSE z

\* Eq. 9 without its guard: applied whatever wmo is.
ffmc_wm2_unguarded(wmo, ed, z, temp, wm) == ed + ffmc_quot(wmo - ed, z, temp)

\* Eq. 9: wm = ed + (wmo - ed) / 10 ** x if (wmo > ed) else wm
ffmc_wm2(wmo, ed, z, temp, wm) ==
  IF wmo > ed THEN ed + ffmc_quot(wmo - ed, z, temp) ELSE wm

\* The second assignments of z and wm, given the first z.
ffmc_step(wmo, ed, ew, temp, rh, ws, z) ==
  ffmc_wm2(wmo, ed, ffmc_z2(wmo, ed, rh, ws, z), temp, ffmc_wm1(wmo, ed, ew, z, temp))

\* Eqs. 6a-9 of ffmc: the moisture wm after a day from wmo and the
\* equilibria ed, ew.
ffmc_regime(wmo, ed, ew, temp, rh, ws) ==
  ffmc_step(wmo, ed, ew, temp, rh, ws, ffmc_z1(wmo, ed, ew, rh, ws))

\* Whether the 10 ** x that ffmc evaluates overflows: the one of Eq. 8 when
\* wmo < ed and wmo < ew, the one of Eq. 9 when wmo > ed, none otherwise
\* (a conditional expression evaluates only the branch it takes).
ffmc_overflow(wmo, ed, ew, temp, rh, ws) ==
  IF wmo < ed /\ wmo < ew
  THEN Pow10Overflows(ffmc_x(ffmc_z1(wmo, ed, ew, rh, ws), temp))
  ELSE IF wmo > ed
  THEN Pow10Overflows(ffmc_x(ffmc_z2(wmo, ed, rh, ws, 0), temp))
  ELSE FALSE

\* The moisture wmo after the rain step and the cap at 250.
ffmc_wmo(c, ffmc_yda, prec) ==
  Cap(ffmc_rain(ffmc_eq1(c, ffmc_yda), ffmc_ra(prec), prec), 250 * Q)

\* Eq. 10 and the constraints: 59.5 * (250 - wm) / (c + wm), kept in [0, 101]
ffmc_eq10(c, wm) == Floor0(Cap(FDiv(Scl(250 * Q - wm, 595, 10), c + wm), 101 * Q))

\* The body of ffmc after validation, with FFMC_COEFFICIENT for c.
ffmc_body(c, ffmc_yda, temp, rh, ws, prec) ==
  ffmc_eq10(c, ffmc_regime(Cap(ffmc_rain(ffmc_eq1(c, ffmc_yda), ffmc_ra(prec), prec),
                               250 * Q),
                           ffmc_ed(temp, rh), ffmc_ew(temp, rh), temp, rh, ws))

ffmc(ffmc_yda, temp, rh, ws, prec) ==
  IF ffmc_yda < 0 \/ ffmc_yda > 101 * Q THEN Invalid("ffmc_yda", ffmc_yda)
  ELSE IF rh < 0 \/ rh > 100 * Q THEN Invalid("rh", rh)
  ELSE IF prec < 0 THEN Invalid("prec", prec)
  ELSE IF ws < 0 THEN Invalid("ws", ws)
  ELSE IF ffmc_overflow(ffmc_wmo(FFMC_COEFFICIENT, ffmc_yda, prec),
                        ffmc_ed(temp, rh), ffmc_ew(temp, rh), temp, rh, ws)
  THEN Raise("OverflowError", "", 0)
  ELSE Ok(ffmc_body(FFMC_COEFFICIENT, ffmc_yda, temp, rh, ws, prec))

\* A month argument: a Python int (isint) or another number, with its value.
IntMon(m) == [isint |-> TRUE, v |-> m]
FloatMon(m) == [isint |-> FALSE, v |-> m]

\* The month test without its isinstance clause.
BadMon_no_isinstance(mon, lo, hi) == mon.v < lo \/ mon.v > hi

\* mon < lo or mon > hi or not isinstance(mon, int)
BadMon(mon, lo, hi) == mon.v < lo \/ mon.v > hi \/ ~mon.isint

\* table[i] of a 12-entry Python list, i in 0..11 (a TLA+ sequence starts at 1).
PyAt(table, i) == table[i + 1]

\* Day length tables of dmc, January first.
\* 46N: Canadian standard, latitude >= 30N
ell01 == <<6500, 7500, 9000, 12800, 13900, 13900, 12400, 10900, 9400, 8000, 7000, 6000>>
\* 20N: For 30 > latitude >= 10
ell02 == <<7900, 8400, 8900, 9500, 9900, 10200, 10100, 9700, 9100, 8600, 8100, 7800>>
\* 20S: For -10 > latitude >= -30
ell03 == <<10100, 9600, 9100, 8500, 8100, 7800, 7900, 8300, 8900, 9400, 9900, 10200>>
\* 40S: For -30 > latitude
ell04 == <<11500, 10500, 9200, 7900, 6800, 6200, 6500, 7400, 8700, 10000, 11200, 11800>>

\* Eq. 16: 1.894 * (temp + 1.1) * (100 - rh) * ell * 1e-04
dmc_eq16(temp, rh, ell) ==
  Scl(FMul(ell, FMul(Scl(temp + 1100, 1894, 1000), 100 * Q - rh)), 1, 10000)

\* The adjustments with the equatorial test closed at both ends
\* (10 >= lat >= -10), so that lat = -10 satisfies two tests.
dmc_bands_overlap(lat, i) ==
  << [hit |-> 30 * Q >= lat /\ lat > 10 * Q,   ell |-> PyAt(ell02, i), src |-> "ell02"],
     [hit |-> -10 * Q >= lat /\ lat > -30 * Q, ell |-> PyAt(ell03, i), src |-> "ell03"],
     [hit |-> -30 * Q >= lat /\ lat >= -90 * Q, ell |-> PyAt(ell04, i), src |-> "ell04"],
     [hit |-> 10 * Q >= lat /\ lat >= -10 * Q, ell |-> 9 * Q,    src |-> "nine"] >>

\* The four latitude adjustments of dmc in the order the code applies them:
\* whether the test holds for lat, the day length it installs, and its name.
\* i is the Python index into the tables (mon - 1).
dmc_bands(lat, i) ==
  << [hit |-> 30 * Q >= lat /\ lat > 10 * Q,   ell |-> PyAt(ell02, i), src |-> "ell02"],
     [hit |-> -10 * Q >= lat /\ lat > -30 * Q, ell |-> PyAt(ell03, i), src |-> "ell03"],
     [hit |-> -30 * Q >= lat /\ lat >= -90 * Q, ell |-> PyAt(ell04, i), src |-> "ell04"],
     [hit |-> 10 * Q >= lat /\ lat > -10 * Q,  ell |-> 9 * Q,    src |-> "nine"] >>

\* rk = <adjusted rk> if <band test> else rk, for the band tests in `order`,
\* starting from the reference value cur = [ell, src].
RECURSIVE dmc_adjust(_, _, _)
dmc_adjust(bands, order, cur) ==
  IF order = <<>> THEN cur
  ELSE dmc_adjust(bands, Tail(order),
                  IF bands[Head(order)].hit
                  THEN [ell |-> bands[Head(order)].ell, src |-> bands[Head(order)].src]
                  ELSE cur)

\* The day length dmc ends with: ell01[i], overridden under lat_adjust.
dmc_daylength(lat, i, lat_adjust, order) ==
  IF lat_adjust
  THEN dmc_adjust(dmc_bands(lat, i), order, [ell |-> PyAt(ell01, i), src |-> "ell01"])
  ELSE [ell |-> PyAt(ell01, i), src |-> "ell01"]

\* The order of the four adjustments in the source.
DmcOrder == <<1, 2, 3, 4>>

\* constrain low end of temperature: temp = -1.1 if (temp < 1.1) else temp
dmc_temp(temp) == IF temp < 1100 THEN -1100 ELSE temp

\* Eqs. 13a and 13c alone: no case for 33 < dmc_yda <= 65.
dmc_b_two_cases(dmc_yda) ==
  IF dmc_yda <= 33 * Q THEN FDiv(100 * Q, 500 + Scl(dmc_yda, 3, 10))
  ELSE Scl(Ln(dmc_yda), 62, 10) - 17200

\* Eqs. 13a, 13b, 13c
dmc_b(dmc_yda) ==
  IF dmc_yda <= 33 * Q THEN FDiv(100 * Q, 500 + Scl(dmc_yda, 3, 10))
  ELSE IF dmc_yda <= 65 * Q THEN 14 * Q - Scl(Ln(dmc_yda), 13, 10)
  ELSE Scl(Ln(dmc_yda), 62, 10) - 17200

\* Eq. 14 less 20: wmr - 20 with wmi = 20 + 280 / exp(0.023 * dmc_yda) (Eq. 12)
\* and the net rain rw = 0.92 * prec - 1.27 (Eq. 11).
dmc_wmr20(rw, dmc_yda, b) ==
  (20 * Q + FDiv(280 * Q, Exp(Scl(dmc_yda, 23, 1000)))
     + FDiv(1000 * rw, 48770 + FMul(rw, b))) - 20 * Q

\* Eq. 15: pr = 43.43 * (5.6348 - log(wmr - 20)), for prec > 1.5.
dmc_rain(prec, dmc_yda, b) ==
  Scl(5635 - Ln(dmc_wmr20(Scl(prec, 92, 100) - 1270, dmc_yda, b)), 4343, 100)

\* Constrain P: pr = dmc_yda if prec <= 1.5, else the rain formula.
dmc_pr(prec, dmc_yda) ==
  IF prec <= 1500 THEN dmc_yda ELSE dmc_rain(prec, dmc_yda, dmc_b(dmc_yda))

\* The body of dmc after validation, mon in 1..12.
dmc_body(dmc_yda, temp, rh, prec, lat, mon, lat_adjust) ==
  Floor0(Floor0(dmc_pr(prec, dmc_yda))
         + dmc_eq16(dmc_temp(temp), rh,
                    dmc_daylength(lat, mon - 1, lat_adjust, DmcOrder).ell))

dmc(dmc_yda, temp, rh, prec, lat, mon, lat_adjust) ==
  IF dmc_yda < 0 THEN Invalid("dc_yda", dmc_yda)
  ELSE IF rh < 0 \/ rh > 100 * Q THEN Invalid("rh", rh)
  ELSE IF prec < 0 THEN Invalid("prec", prec)
  ELSE IF BadMon(mon, 1, 12) THEN Invalid("mon", mon.v)
  ELSE Ok(dmc_body(dmc_yda, temp, rh, prec, lat, mon.v, lat_adjust))

\* Day length factors of dc, January first.
\* 20N: North of 20 degrees N
fl01 == <<-1600, -1600, -1600, 900, 3800, 5800, 6400, 5000, 2400, 400, -1600, -1600>>
\* 20S: South of 20 degrees S
fl02 == <<6400, 5000, 2400, 400, -1600, -1600, -1600, -1600, -1600, 900, 3800, 5800>>

\* Constrain temperature: temp = -2.8 if (temp == 2.8) else temp
dc_temp(temp) == IF temp = 2800 THEN -2800 ELSE temp

\* Eq. 22 - Potential Evapotranspiration: (0.36 * (temp + 2.8) + fl) / 2
dc_eq22(temp, fl) == (Scl(temp + 2800, 36, 100) + fl) \div 2

\* The day length factor with the northern table from lat = 20 on and the
\* southern table only below -20.
dc_daylength_north_at_20(lat, i01, i02, lat_adjust) ==
  IF lat_adjust /\ -20 * Q <= lat /\ lat < 20 * Q
  THEN [src |-> "equator", fl |-> 1400]
  ELSE IF lat_adjust /\ lat < -20 * Q
  THEN (IF i02 > 11 THEN [src |-> "IndexError", fl |-> 0]
        ELSE [src |-> "fl02", fl |-> PyAt(fl02, i02)])
  ELSE [src |-> "fl01", fl |-> PyAt(fl01, i01)]

\* The day length factor dc ends with and where it came from.  i01 and i02
\* are the Python indices the function uses into fl01 and fl02; an index
\* of 12 is past the end of the list (IndexError), met only when evaluated.
dc_daylength(lat, i01, i02, lat_adjust) ==
  IF lat_adjust /\ -20 * Q < lat /\ lat <= 20 * Q
  THEN [src |-> "equator", fl |-> 1400]
  ELSE IF lat_adjust /\ lat <= -20 * Q
  THEN (IF i02 > 11 THEN [src |-> "IndexError", fl |-> 0]
        ELSE [src |-> "fl02", fl |-> PyAt(fl02, i02)])
  ELSE [src |-> "fl01", fl |-> PyAt(fl01, i01)]

\* 1 + 3.937 * rw / smi, the argument of the logarithm of Eq. 21, with
\* rw = 0.83 * prec - 1.27 (Eq. 18) and smi = 800 * exp(-dc_yda / 400) (Eq. 19).
dc_logarg(dc_yda, prec) ==
  Q + FDiv(Scl(Scl(prec, 83, 100) - 1270, 3937, 1000),
           MulExp(800 * Q, -(dc_yda \div 400)))

\* dr = dc_yda if (prec <= 2.8) else dr0, with dr0 = dc_yda - 400 * log(arg)
\* capped below at 0.
dc_dr(dc_yda, prec, arg) ==
  IF prec <= 2800 THEN dc_yda ELSE Floor0(dc_yda - 400 * Ln(arg))

\* dc after the day length is chosen: the logarithm of Eq. 21 is taken
\* whatever prec is, and raises for an argument that is not positive.
dc_tail(dc_yda, temp, prec, mon, day, arg) ==
  IF day.src = "IndexError" THEN Raise("IndexError", "fl02", mon)
  ELSE IF arg <= 0 THEN Raise("ValueError", "math domain error", arg)
  ELSE Ok(Floor0(dc_dr(dc_yda, prec, arg) + Floor0(dc_eq22(dc_temp(temp), day.fl))))

\* The body of dc after validation, mon in 1..12: fl01[mon - 1], fl02[mon].
dc_body(dc_yda, temp, rh, prec, lat, mon, lat_adjust) ==
  dc_tail(dc_yda, temp, prec, mon, dc_daylength(lat, mon - 1, mon, lat_adjust),
          dc_logarg(dc_yda, prec))

dc(dc_yda, temp, rh, prec, lat, mon, lat_adjust) ==
  IF dc_yda < 0 THEN Invalid("dc_yda", dc_yda)
  ELSE IF rh < 0 \/ rh > 100 * Q THEN Invalid("rh", rh)
  ELSE IF prec < 0 THEN Invalid("prec", prec)
  ELSE IF BadMon(mon, 1, 12) THEN Invalid("mon", mon.v)
  ELSE dc_body(dc_yda, temp, rh, prec, lat, mon.v, lat_adjust)

\* fm ** 5.31 / 49300000 of Eq. 25, formed as exp(5.31 ln fm - ln 49300000)
\* (ln 49300000 = 17.713), which keeps the power within 32 bits.
isi_fmterm(fm) == IF fm = 0 THEN 0 ELSE Exp(Scl(Ln(fm), 531, 100) - 17713)

\* The standard wind effect of Eq. 24: exp(0.05039 * ws)
isi_fW_std(ws) == Exp(Scl(ws, 5039, 100000))
\* Equation 53a in FCFDG (1992): 12 * (1 - exp(-0.0818 * (ws - 28)))
isi_fW_fbp(ws) == 12 * (Q - Exp(-Scl(ws - 28 * Q, 818, 10000)))

\* Eq. 24 with the alternate form only above 40 km/h.
isi_fW_above_40(ws, fbp_mod) ==
  IF ws > 40 * Q /\ fbp_mod THEN isi_fW_fbp(ws) ELSE isi_fW_std(ws)

\* Eq. 24 - Wind Effect
isi_fW(ws, fbp_mod) ==
  IF ws >= 40 * Q /\ fbp_mod THEN isi_fW_fbp(ws) ELSE isi_fW_std(ws)

\* Eq. 25 - Fine Fuel Moisture, and Eq. 26: 0.208 * fW * fF
isi_eq26(fm, fW) ==
  FMul(Scl(fW, 208, 1000),
       FMul(MulExp(91900, -Scl(fm, 1386, 10000)), Q + isi_fmterm(fm)))

\* The body of isi after validation, with FFMC_COEFFICIENT for c.
isi_body(c, ffmc0, ws, fbp_mod) == isi_eq26(ffmc_eq1(c, ffmc0), isi_fW(ws, fbp_mod))

isi(ffmc0, ws, fbp_mod) ==
  IF ffmc0 < 0 \/ ffmc0 > 101 * Q THEN Invalid("ffmc", ffmc0)
  ELSE IF ws < 0 THEN Invalid("ws", ws)
  ELSE Ok(isi_body(FFMC_COEFFICIENT, ffmc0, ws, fbp_mod))

\* Eq. 27a: 0.8 * dc * dmc / (dmc + 0.4 * dc), the denominator not 0.
bui_eq27a(dmc0, dc0) == FDiv(FMul(dmc0, Scl(dc0, 8, 10)), dmc0 + Scl(dc0, 4, 10))

\* cc = 0.92 + ((0.0114 * dmc) ** 1.7)
bui_cc(dmc0) == 920 + Pow(Scl(dmc0, 114, 10000), 17, 10)

\* Eq. 27b given p: bui0 = dmc - cc * p with cc = 0.92 + (0.0114 * dmc) ** 1.7
bui_eq27b(dmc0, p) == dmc0 - FMul(p, bui_cc(dmc0))

\* p = 0 if (dmc == 0) else ((dmc - bui1) / dmc)
bui_p(dmc0, bui1) == IF dmc0 = 0 THEN 0 ELSE FDiv(dmc0 - bui1, dmc0)

\* Whether evaluating p divides by dmc: a conditional expression evaluates
\* the quotient only on the branch it takes.
bui_p_divides(dmc0) == dmc0 # 0

\* The constraints without bui0 = 0 if (bui0 < 0) else bui0.
bui_select_unfloored(dmc0, bui1, b0, zero) ==
  IF bui1 < dmc0 THEN [v |-> b0, isint |-> FALSE]
  ELSE [v |-> bui1, isint |-> zero]

\* The constraints of bui: bui0 floored at 0, and bui0 returned for bui1 when
\* bui1 < dmc.  isint: the object returned is an int literal 0 of the
\* source (bui1 as first assigned, or the floor of bui0), not a float.
bui_select(dmc0, bui1, b0, zero) ==
  IF bui1 < dmc0 THEN [v |-> Floor0(b0), isint |-> b0 < 0]
  ELSE [v |-> bui1, isint |-> zero]

bui_tail(dmc0, bui1, zero) ==
  bui_select(dmc0, bui1, bui_eq27b(dmc0, bui_p(dmc0, bui1)), zero)

\* The body of bui after validation.
bui_body(dmc0, dc0) ==
  bui_tail(dmc0, IF dmc0 = 0 /\ dc0 = 0 THEN 0 ELSE bui_eq27a(dmc0, dc0),
           dmc0 = 0 /\ dc0 = 0)

bui(dmc0, dc0) ==
  IF dmc0 < 0 THEN Invalid("dmc", dmc0)
  ELSE IF dc0 < 0 THEN Invalid("dc", dc0)
  ELSE Ok(bui_body(dmc0, dc0).v)

\* exp(0.023 * bui) is beyond the largest double when 0.023 * bui > 709.78:
\* math.exp raises OverflowError (math range error), np.exp gives inf.
fwi_exp_overflows(bui0) == Scl(bui0, 23, 1000) > 709782

\* 108.64 / exp(0.023 * bui): below half a thousandth, so 0 here, once
\* 0.023 * bui >= 14 (and 0 for the inf of np.exp).
fwi_sat(bui0) ==
  IF Scl(bui0, 23, 1000) >= 14 * Q THEN 0 ELSE FDiv(108640, Exp(Scl(bui0, 23, 1000)))

\* Eq. 28b: 0.1 * isi * (1000 / (25 + 108.64 / exp(0.023 * bui)))
fwi_eq28b(isi0, bui0) ==
  FMul(isi0 \div 10, FDiv(1000 * Q, 25 * Q + fwi_sat(bui0)))
\* Eq. 28a: 0.1 * isi * (0.626 * (bui ** 0.809) + 2)
fwi_eq28a(isi0, bui0) ==
  FMul(isi0 \div 10, Scl(Pow(bui0, 809, 1000), 626, 1000) + 2 * Q)

\* Eqs. 28b, 28a, 29
fwi_bb(isi0, bui0) ==
  IF bui0 > 80 * Q THEN fwi_eq28b(isi0, bui0) ELSE fwi_eq28a(isi0, bui0)

\* Eqs. 30b, 30a
fwi_eq30(bb) ==
  IF bb <= Q THEN bb
  ELSE Exp(Scl(Pow(Scl(Ln(bb), 434, 1000), 647, 1000), 272, 100))

\* The body of fwi after validation.
fwi_body(isi0, bui0) == fwi_eq30(fwi_bb(isi0, bui0))

fwi(isi0, bui0) ==
  IF isi0 < 0 THEN Invalid("isi", isi0)
  ELSE IF bui0 < 0 THEN Invalid("bui", bui0)
  ELSE IF bui0 > 80 * Q /\ fwi_exp_overflows(bui0)
  THEN Raise("OverflowError", "math range error", 0)
  ELSE Ok(fwi_body(isi0, bui0))

\* ================== fwi_numpy.py: the array functions ====================
\* An array is a sequence of numbers; the arrays of one call have one shape.
\* Every arithmetic operation and np.where of the source acts element by
\* element, so a function body is stated for element i of its arrays.  A
\* branch np.where does not select may divide by zero or take the logarithm
\* of a non-positive number: numpy puts a masked/nan value there and goes on,
\* and the value is never read.

Idx(a) == 1..Len(a)

\* np.any(a < lo)
AnyBelow(a, lo) == \E i \in Idx(a) : a[i] < lo
\* np.any(a > hi)
AnyAbove(a, hi) == \E i \in Idx(a) : a[i] > hi

\* The literal 147.2 of Eq. 1 and Eq. 10 in ffmc_arr and isi_arr.
ARR_COEFFICIENT == 147200

\* eq3a3b(wmo, ra, prec) at one element:
\* np.where(prec > 0.5, np.where(wmo > 150, wmo1, wmo2), wmo)
eq3a3b(wmo, ra, prec) ==
  IF prec > 500
  THEN (IF wmo > 150 * Q
        THEN wmo + FMul(FMul(Scl(wmo - 150 * Q, 15, 10000), wmo - 150 * Q), Sqrt(ra))
                 + FMul(MulExp(Scl(ra, 425, 10), FDiv(-100 * Q, 251 * Q - wmo)),
                        Q - Exp(FDiv(-6930, ra)))
        ELSE wmo + FMul(MulExp(Scl(ra, 425, 10), FDiv(-100 * Q, 251 * Q - wmo)),
                        Q - Exp(FDiv(-6930, ra))))
  ELSE wmo

\* z = np.where(wmo < ed, np.where(wmo < ew, <Eq. 6a>, 0), 0)
ffmc_arr_z1(wmo, ed, ew, rh, ws) ==
  IF wmo < ed
  THEN (IF wmo < ew THEN ffmc_lograte((100 * Q - rh) \div 100, ws) ELSE 0)
  ELSE 0

\* d / 10 ** x in numpy: 10 ** x is inf where it overflows, and d / inf is 0.
ffmc_arr_quot(d, z, temp) ==
  IF Pow10Overflows(ffmc_x(z, temp)) THEN 0 ELSE ffmc_quot(d, z, temp)

\* wm = np.where(wmo < ed, np.where(wmo < ew, ew - (ew - wmo) / 10 ** x, wmo), wmo)
ffmc_arr_wm1(wmo, ed, ew, z, temp) ==
  IF wmo < ed
  THEN (IF wmo < ew THEN ew - ffmc_arr_quot(ew - wmo, z, temp) ELSE wmo)
  ELSE wmo

\* z = np.where(wmo > ed, <Eq. 7a>, z)
ffmc_arr_z2(wmo, ed, rh, ws, z) ==
  IF wmo > ed THEN ffmc_lograte(rh \div 100, ws) ELSE z

\* wm = np.where(wmo > ed, ed + (wmo - ed) / 10 ** x, wm)
ffmc_arr_wm2(wmo, ed, z, temp, wm) ==
  IF wmo > ed THEN ed + ffmc_arr_quot(wmo - ed, z, temp) ELSE wm

ffmc_arr_step(wmo, ed, ew, temp, rh, ws, z) ==
  ffmc_arr_wm2(wmo, ed, ffmc_arr_z2(wmo, ed, rh, ws, z), temp,
               ffmc_arr_wm1(wmo, ed, ew, z, temp))

ffmc_arr_regime(wmo, ed, ew, temp, rh, ws) ==
  ffmc_arr_step(wmo, ed, ew, temp, rh, ws, ffmc_arr_z1(wmo, ed, ew, rh, ws))

\* Eq. 10 of ffmc_arr and its two np.where constraints
ffmc_arr_eq10(wm) ==
  Floor0(Cap(FDiv(Scl(250 * Q - wm, 595, 10), ARR_COEFFICIENT + wm), 101 * Q))

\* wmo of ffmc_arr at one element after Eq. 1, ra = np.where(prec > 0.5,
\* prec - 0.5, prec), eq3a3b and wmo = np.where(wmo > 250, 250, wmo).
ffmc_arr_wmo(ffmc_yda, prec) ==
  Cap(eq3a3b(FDiv(FMul(101 * Q - ffmc_yda, ARR_COEFFICIENT), 59500 + ffmc_yda),
             IF prec > 500 THEN prec - 500 ELSE prec, prec),
      250 * Q)

\* ffmc_arr after validation, at one element.
ffmc_arr_elem(ffmc_yda, temp, rh, ws, prec) ==
  ffmc_arr_eq10(
    ffmc_arr_regime(ffmc_arr_wmo(ffmc_yda, prec),
                    ffmc_ed(temp, rh), ffmc_ew(temp, rh), temp, rh, ws))

ffmc_arr(ffmc_yda, temp, rh, ws, prec) ==
  IF AnyBelow(ffmc_yda, 0) \/ AnyAbove(ffmc_yda, 101 * Q) THEN Invalid("ffmc_yda", ffmc_yda)
  ELSE IF AnyBelow(rh, 0) \/ AnyAbove(rh, 100 * Q) THEN Invalid("rh", rh)
  ELSE IF AnyBelow(prec, 0) THEN Invalid("prec", prec)
  ELSE IF AnyBelow(ws, 0) THEN Invalid("ws", ws)
  ELSE Ok([i \in Idx(ffmc_yda) |->
             ffmc_arr_elem(ffmc_yda[i], temp[i], rh[i], ws[i], prec[i])])

\* The four np.where adjustments of rk in dmc_arr, in source order, at one
\* element; mon is the Python index into the tables.
dmc_arr_bands(lat, mon) ==
  << [hit |-> lat > 10 * Q /\ lat <= 30 * Q,   ell |-> PyAt(ell02, mon), src |-> "ell02"],
     [hit |-> lat > -30 * Q /\ lat <= -10 * Q, ell |-> PyAt(ell03, mon), src |-> "ell03"],
     [hit |-> lat >= -90 * Q /\ lat <= -30 * Q, ell |-> PyAt(ell04, mon), src |-> "ell04"],
     [hit |-> lat > -10 * Q /\ lat <= 10 * Q,  ell |-> 9 * Q,          src |-> "nine"] >>

\* The day length dmc_arr ends with at one element: ell01[mon], overridden.
dmc_arr_daylength(lat, mon, lat_adjust, order) ==
  IF lat_adjust
  THEN dmc_adjust(dmc_arr_bands(lat, mon), order, [ell |-> PyAt(ell01, mon), src |-> "ell01"])
  ELSE [ell |-> PyAt(ell01, mon), src |-> "ell01"]

\* b of calc_rain: np.where(dmc_yda <= 65, np.where(dmc_yda <= 33, 13a, 13b), 13c)
calc_rain_b(dmc_yda) ==
  IF dmc_yda <= 65 * Q
  THEN (IF dmc_yda <= 33 * Q
        THEN FDiv(100 * Q, 500 + Scl(dmc_yda, 3, 10))
        ELSE 14 * Q - Scl(Ln(dmc_yda), 13, 10))
  ELSE Scl(Ln(dmc_yda), 62, 10) - 17200

\* calc_rain(prec, dmc_yda) at one element, read where prec > 1.5.
calc_rain(prec, dmc_yda) ==
  Scl(5635 - Ln(dmc_wmr20(Scl(prec, 92, 100) - 1270, dmc_yda, calc_rain_b(dmc_yda))),
      4343, 100)

\* temp = np.where(temp == 1.1, -1.1, temp)
dmc_arr_temp(temp) == IF temp = 1100 THEN -1100 ELSE temp

\* pr = np.where(prec <= 1.5, dmc_yda, calc_rain(prec, dmc_yda))
dmc_arr_pr(prec, dmc_yda) ==
  IF prec <= 1500 THEN dmc_yda ELSE calc_rain(prec, dmc_yda)

\* dmc_arr after validation, at one element; mon in 0..11.
dmc_arr_elem(dmc_yda, temp, rh, prec, lat, mon, lat_adjust) ==
  Floor0(Floor0(dmc_arr_pr(prec, dmc_yda))
         + dmc_eq16(dmc_arr_temp(temp), rh,
                    dmc_arr_daylength(lat, mon, lat_adjust, DmcOrder).ell))

dmc_arr(dmc_yda, temp, rh, prec, lat, mon, lat_adjust) ==
  IF AnyBelow(dmc_yda, 0) THEN Invalid("dc_yda", dmc_yda)
  ELSE IF AnyBelow(rh, 0) \/ AnyAbove(rh, 100 * Q) THEN Invalid("rh", rh)
  ELSE IF AnyBelow(prec, 0) THEN Invalid("prec", prec)
  ELSE IF BadMon(mon, 0, 11) THEN Invalid("mon", mon.v)
  ELSE Ok([i \in Idx(dmc_yda) |->
             dmc_arr_elem(dmc_yda[i], temp[i], rh[i], prec[i], lat[i], mon.v, lat_adjust)])

\* The day length factor dc_arr ends with at one element, mon in 0..11:
\* fl01[mon], then the two np.where adjustments under lat_adjust.
dc_arr_daylength(lat, mon, lat_adjust) ==
  IF lat_adjust /\ lat > -20 * Q /\ lat <= 20 * Q
  THEN [src |-> "equator", fl |-> 1400]
  ELSE IF lat_adjust /\ lat <= -20 * Q
  THEN [src |-> "fl02", fl |-> PyAt(fl02, mon)]
  ELSE [src |-> "fl01", fl |-> PyAt(fl01, mon)]

\* dr = np.where(prec <= 2.8, dc_yda, dr0); dr0 is read only where
\* prec > 2.8, and there the logarithm's argument exceeds 1.
dc_arr_dr(dc_yda, prec) ==
  IF prec <= 2800 THEN dc_yda
  ELSE Floor0(dc_yda - 400 * Ln(dc_logarg(dc_yda, prec)))

\* dc_arr after validation, at one element.
dc_arr_elem(dc_yda, temp, rh, prec, lat, mon, lat_adjust) ==
  Floor0(dc_arr_dr(dc_yda, prec)
         + Floor0(dc_eq22(dc_temp(temp), dc_arr_daylength(lat, mon, lat_adjust).fl)))

dc_arr(dc_yda, temp, rh, prec, lat, mon, lat_adjust) ==
  IF AnyBelow(dc_yda, 0) THEN Invalid("dc_yda", dc_yda)
  ELSE IF AnyBelow(rh, 0) \/ AnyAbove(rh, 100 * Q) THEN Invalid("rh", rh)
  ELSE IF AnyBelow(prec, 0) THEN Invalid("prec", prec)
  ELSE IF BadMon(mon, 0, 11) THEN Invalid("mon", mon.v)
  ELSE Ok([i \in Idx(dc_yda) |->
             dc_arr_elem(dc_yda[i], temp[i], rh[i], prec[i], lat[i], mon.v, lat_adjust)])

\* fW of isi_arr: the np.where over ws >= 40 under fbp_mod, else the
\* standard wind effect.
isi_arr_fW(ws, fbp_mod) ==
  IF fbp_mod
  THEN (IF ws >= 40 * Q THEN isi_fW_fbp(ws) ELSE isi_fW_std(ws))
  ELSE isi_fW_std(ws)

\* isi_arr after validation, at one element.
isi_arr_elem(ffmc0, ws, fbp_mod) ==
  isi_eq26(FDiv(FMul(101 * Q - ffmc0, ARR_COEFFICIENT), 59500 + ffmc0),
           isi_arr_fW(ws, fbp_mod))

isi_arr(ffmc0, ws, fbp_mod) ==
  IF AnyBelow(ffmc0, 0) \/ AnyAbove(ffmc0, 101 * Q) THEN Invalid("ffmc", ffmc0)
  ELSE IF AnyBelow(ws, 0) THEN Invalid("ws", ws)
  ELSE Ok([i \in Idx(ffmc0) |-> isi_arr_elem(ffmc0[i], ws[i], fbp_mod)])

\* eq27a(dc_loc, dmc_loc) at one element, read where the denominator is not 0.
eq27a(dc_loc, dmc_loc) ==
  FDiv(FMul(dmc_loc, Scl(dc_loc, 8, 10)), dmc_loc + Scl(dc_loc, 4, 10))

\* bui1 = np.where(dmc_loc == 0, np.where(dc_loc == 0, 0, eq27a), eq27a)
bui_arr_bui1(dmc_loc, dc_loc) ==
  IF dmc_loc = 0
  THEN (IF dc_loc = 0 THEN 0 ELSE eq27a(dc_loc, dmc_loc))
  ELSE eq27a(dc_loc, dmc_loc)

\* The elements at which bui_arr divides by dmc_loc in
\* p = np.where(dmc_loc == 0, 0, ((dmc_loc - bui1) / dmc_loc)): the
\* quotient array is an argument of np.where, computed at every element
\* before np.where selects (x / 0 is nan or inf with a RuntimeWarning).
bui_arr_p_divides(dmc_loc) == Idx(dmc_loc)

\* p, cc, bui0 and the two np.where constraints of bui_arr
bui_arr_tail(dmc_loc, bui1) ==
  IF bui1 < dmc_loc THEN Floor0(bui_eq27b(dmc_loc, bui_p(dmc_loc, bui1))) ELSE bui1

\* bui_arr after validation, at one element.
bui_arr_elem(dmc_loc, dc_loc) == bui_arr_tail(dmc_loc, bui_arr_bui1(dmc_loc, dc_loc))

\* A bui_arr that validates element by element and returns the elements it
\* could compute, with 0 where an input is negative.
bui_arr_partial(dmc_loc, dc_loc) ==
  Ok([i \in Idx(dmc_loc) |->
        IF dmc_loc[i] < 0 \/ dc_loc[i] < 0 THEN 0
        ELSE bui_arr_elem(dmc_loc[i], dc_loc[i])])

\* The raise statements of bui_arr format the names dmc and dc, which the
\* function (parameters dmc_loc, dc_loc) and its module do not define:
\* evaluating the message raises NameError before a ValueError exists.
bui_arr(dmc_loc, dc_loc) ==
  IF AnyBelow(dmc_loc, 0) THEN Raise("NameError", "dmc", <<>>)
  ELSE IF AnyBelow(dc_loc, 0) THEN Raise("NameError", "dc", <<>>)
  ELSE Ok([i \in Idx(dmc_loc) |-> bui_arr_elem(dmc_loc[i], dc_loc[i])])

\* bb with the branch of every element chosen by the first element of bui.
fwi_arr_first_branch(isi0, bui0) ==
  IF AnyBelow(isi0, 0) THEN Invalid("isi", isi0)
  ELSE IF AnyBelow(bui0, 0) THEN Invalid("bui", bui0)
  ELSE Ok([i \in Idx(isi0) |->
             fwi_eq30(IF bui0[1] > 80 * Q THEN fwi_eq28b(isi0[i], bui0[i])
                      ELSE fwi_eq28a(isi0[i], bui0[i]))])

\* bb = np.where(bui > 80, <Eq. 28b>, <Eq. 28a>)
fwi_arr_bb(isi0, bui0) ==
  IF bui0 > 80 * Q THEN fwi_eq28b(isi0, bui0) ELSE fwi_eq28a(isi0, bui0)

\* fwi_arr after validation, at one element: np.where(bb <= 1, bb, <Eq. 30a>)
fwi_arr_elem(isi0, bui0) == fwi_eq30(fwi_arr_bb(isi0, bui0))

fwi_arr(isi0, bui0) ==
  IF AnyBelow(isi0, 0) THEN Invalid("isi", isi0)
  ELSE IF AnyBelow(bui0, 0) THEN Invalid("bui", bui0)
  ELSE Ok([i \in Idx(isi0) |-> fwi_arr_elem(isi0[i], bui0[i])])

\* ============ raster/buildup_index_raster.py: the raster BUI ============
\* A float that is not a number: the power of a negative base.
NaN == 0 - 2147483647

\* bui1 = np.divide(numerator, denominator, where=denominator != 0,
\*                  out=np.zeros_like(numerator, dtype=float))
buildup_index_bui1(dmc0, dc0) ==
  IF dmc0 + Scl(dc0, 4, 10) # 0
  THEN FDiv(FMul(dmc0, Scl(dc0, 8, 10)), dmc0 + Scl(dc0, 4, 10))
  ELSE 0

\* bui0 = dmc - cc * p: (0.0114 * dmc) ** 1.7 is nan for dmc < 0, and so is
\* bui0 then; np.where(bui0 < 0, 0, bui0) keeps a nan (nan < 0 is False).
buildup_index_bui0(dmc0, bui1) ==
  IF dmc0 < 0 THEN NaN ELSE Floor0(bui_eq27b(dmc0, bui_p(dmc0, bui1)))

\* bui1 = np.where(bui1 < dmc, bui0, bui1)
buildup_index_tail(dmc0, bui1) ==
  IF bui1 < dmc0 THEN buildup_index_bui0(dmc0, bui1) ELSE bui1

\* buildup_index(dmc, dc) at one cell.  Nothing is validated.
buildup_index_elem(dmc0, dc0) == buildup_index_tail(dmc0, buildup_index_bui1(dmc0, dc0))

buildup_index(dmc0, dc0) ==
  Ok([i \in Idx(dmc0) |-> buildup_index_elem(dmc0[i], dc0[i])])

\* The conversion of a float v to int64: the digits after the point dropped.
Trunc(v) == Sgn(v) * ((Abs(v) \div Q) * Q)

\* The first index from i on at which bui raises, 0 if none.
RECURSIVE FirstBad(_, _, _)
FirstBad(dmc0, dc0, i) ==
  IF i > Len(dmc0) THEN 0
  ELSE IF bui(dmc0[i], dc0[i]).kind # "ok" THEN i
  ELSE FirstBad(dmc0, dc0, i + 1)

\* The array np.vectorize returns when no call of bui raised.
vectorized_out(dmc0, dc0, asint) ==
  Ok([i \in Idx(dmc0) |->
        IF asint THEN Trunc(bui_body(dmc0[i], dc0[i]).v) ELSE bui_body(dmc0[i], dc0[i]).v])

vectorized_from(dmc0, dc0, bad) ==
  IF bad # 0 THEN bui(dmc0[bad], dc0[bad])
  ELSE vectorized_out(dmc0, dc0, bui_body(dmc0[1], dc0[1]).isint)

\* buildup_index_vectorized = np.vectorize(bui), called as (dmc, dc).  No
\* otypes are given, so np.vectorize calls bui on the first cell and takes the
\* output dtype from the object returned: int64 when that is the int literal
\* 0 of bui, float64 otherwise.  It then calls bui on every cell in order (a
\* raise of bui ends the call) and converts the results to that dtype.
buildup_index_vectorized(dmc0, dc0) ==
  vectorized_from(dmc0, dc0, FirstBad(dmc0, dc0, 1))

\* ==================== hffmc.py: the hourly FFMC ==========================

\* Eqs. 3a & 3b: mr from mo and rf = prec, rf > 0 and mo # 251
hffmc_mr(mo, rf) ==
  IF mo <= 150 * Q THEN mo + ffmc_absorb(mo, rf)
  ELSE mo + ffmc_absorb(mo, rf) + ffmc_corr(mo, rf)

\* 10 ** (-k * t0) with k = ko * 0.0579 * exp(0.0365 * temp)  (Eqs. 3b, 4b, 8)
hffmc_decay(ko, temp, t0) ==
  Pow10(0 - FMul(FMul(Scl(ko, 579, 10000), Exp(Scl(temp, 365, 10000))), t0))

\* Eq. 8 for drying: md = ed + (mo - ed) * 10 ** (-kd * t0)
hffmc_md(mo, ed, temp, rh, ws, t0) ==
  ed + FMul(mo - ed, hffmc_decay(ffmc_lograte(rh \div 100, ws), temp, t0))

\* Eq. 8 for wetting: mw = ew - (ew - mo) * 10 ** (-kw * t0)
hffmc_mw(mo, ew, temp, rh, ws, t0) ==
  ew - FMul(ew - mo, hffmc_decay(ffmc_lograte((100 * Q - rh) \div 100, ws), temp, t0))

\* Constraints: m is md if mo > ed, mo if ed >= mo >= ew, else mw
hffmc_m(mo, ed, ew, temp, rh, ws, t0) ==
  IF mo > ed THEN hffmc_md(mo, ed, temp, rh, ws, t0)
  ELSE IF ed >= mo /\ mo >= ew THEN mo
  ELSE hffmc_mw(mo, ew, temp, rh, ws, t0)

\* Eq. 6 and fo = max(fo, 0); the quotient has no upper constraint.
hffmc_eq6(m) ==
  IF FFMC_COEFFICIENT + m = 0 THEN Raise("ZeroDivisionError", "", 0)
  ELSE Ok(Max2(FDiv(Scl(250 * Q - m, 595, 10), FFMC_COEFFICIENT + m), 0))

\* From Eq. 2a on, given the moisture mo after the rain step.
hffmc_dry(mo, temp, rh, ws, t0) ==
  hffmc_eq6(hffmc_m(mo, ffmc_ed(temp, rh), ffmc_ew(temp, rh), temp, rh, ws, t0))

\* The rain step.  mr is computed whatever prec is, and its term
\* exp(-6.93 / rf) divides by rf = prec: with prec = 0 the division raises
\* ZeroDivisionError before mo = mr if prec > 0.0 else mo is reached.
hffmc_rain(mo, temp, rh, ws, prec, t0) ==
  IF 251 * Q - mo = 0 \/ prec = 0 THEN Raise("ZeroDivisionError", "", 0)
  ELSE hffmc_dry(IF prec > 0 THEN Min2(hffmc_mr(mo, prec), 250 * Q) ELSE mo,
                 temp, rh, ws, t0)

\* hourly_fine_fuel_moisture_code(temp, rh, ws, prec, fo=85, t0=1).
\* rh, prec and ws are validated; fo is not.
hourly_fine_fuel_moisture_code(temp, rh, ws, prec, fo, t0) ==
  IF rh < 0 \/ rh > 100 * Q THEN Invalid("rh", rh)
  ELSE IF prec < 0 THEN Invalid("prec", prec)
  ELSE IF ws < 0 THEN Invalid("ws", ws)
  ELSE IF 59500 + fo = 0 THEN Raise("ZeroDivisionError", "", 0)
  ELSE hffmc_rain(ffmc_eq1(FFMC_COEFFICIENT, fo), temp, rh, ws, prec, t0)

\* ============ buildup_index_raster.py: the top-level module ==============

\* A call that returned the None of Python, as a function does when its
\* body ends without a return statement: no error, and no array.
None == [kind |-> "ok", field |-> "None", val |-> <<>>]

\* buildup_index(dc, dmc) of cffdrs/buildup_index_raster.py, the function
\* the test imports.  Its body is the expression statement np.array(1) and
\* pass: it returns None whatever the rasters hold.
buildup_index_raster_buildup_index(dc0, dmc0) == None

\* ============================ the calls ==================================
\* The functions are pure and keep no state between calls.  A state holds
\* the inputs of one family of functions (fam, args) and what each
\* implementation of the family returned or raised for them so far.

VARIABLES
  fam,   \* the family the inputs are for: ffmc, hffmc, dmc, dc, isi, bui or fwi
  args,  \* the inputs: equally long arrays, and the flags and month of the call
  sc,    \* the last call of the scalar function: the cell i it was given, its result
  arr,   \* the result of the array function on the arrays
  ras,   \* the result of the raster buildup_index on the arrays (family bui)
  vec,   \* the result of buildup_index_vectorized on the arrays (family bui)
  stub,  \* the result of buildup_index of cffdrs/buildup_index_raster.py (family bui)
  pipe   \* a caller's run of days: the day count and each code's and index's last result

vars == <<fam, args, sc, arr, ras, vec, stub, pipe>>

\* Not called yet.
NoCall == [kind |-> "none", field |-> "", val |-> 0]
NoSc == [i |-> 0, res |-> NoCall]
NoPipe ==
  [n |-> 0, ffmc |-> NoCall, dmc |-> NoCall, dc |-> NoCall,
   isi |-> NoCall, bui |-> NoCall, fwi |-> NoCall]

\* The length of the arrays of a call.
ArrLen == 2

\* The month argument each convention gives for calendar month args.mon:
\* the scalar functions take 1..12, the array functions 0..11.
ScalarMon(m) == m
ArrayMon(m) == [isint |-> m.isint, v |-> m.v - 1]

\* Arrays of cells with the cell at one position k drawn from G and the cells
\* at the other positions from B.
Cells(G, B) ==
  UNION { { [i \in 1..ArrLen |-> IF i = k THEN g ELSE bg[i]] : g \in G }
          : k \in 1..ArrLen, bg \in [1..ArrLen -> B] }

\* Column f of an array of cells.
Col(cells, f) == [i \in 1..Len(cells) |-> cells[i][f]]

\* ---- the actions: one per function --------------------------------------
Ffmc ==
  /\ fam = "ffmc"
  /\ \E i \in 1..ArrLen :
       sc' = [i |-> i, res |-> ffmc(args.ffmc_yda[i], args.temp[i], args.rh[i],
                                    args.ws[i], args.prec[i])]
  /\ UNCHANGED <<fam, args, arr, ras, vec, stub, pipe>>

FfmcArr ==
  /\ fam = "ffmc"
  /\ arr' = ffmc_arr(args.ffmc_yda, args.temp, args.rh, args.ws, args.prec)
  /\ UNCHANGED <<fam, args, sc, ras, vec, stub, pipe>>

Dmc ==
  /\ fam = "dmc"
  /\ \E i \in 1..ArrLen :
       sc' = [i |-> i, res |-> dmc(args.dmc_yda[i], args.temp[i], args.rh[i], args.prec[i],
                                   args.lat[i], ScalarMon(args.mon), args.lat_adjust)]
  /\ UNCHANGED <<fam, args, arr, ras, vec, stub, pipe>>

DmcArr ==
  /\ fam = "dmc"
  /\ arr' = dmc_arr(args.dmc_yda, args.temp, args.rh, args.prec, args.lat,
                    ArrayMon(args.mon), args.lat_adjust)
  /\ UNCHANGED <<fam, args, sc, ras, vec, stub, pipe>>

Dc ==
  /\ fam = "dc"
  /\ \E i \in 1..ArrLen :
       sc' = [i |-> i, res |-> dc(args.dc_yda[i], args.temp[i], args.rh[i], args.prec[i],
                                  args.lat[i], ScalarMon(args.mon), args.lat_adjust)]
  /\ UNCHANGED <<fam, args, arr, ras, vec, stub, pipe>>

DcArr ==
  /\ fam = "dc"
  /\ arr' = dc_arr(args.dc_yda, args.temp, args.rh, args.prec, args.lat,
                   ArrayMon(args.mon), args.lat_adjust)
  /\ UNCHANGED <<fam, args, sc, ras, vec, stub, pipe>>

Isi ==
  /\ fam = "isi"
  /\ \E i \in 1..ArrLen :
       sc' = [i |-> i, res |-> isi(args.ffmc[i], args.ws[i], args.fbp_mod)]
  /\ UNCHANGED <<fam, args, arr, ras, vec, stub, pipe>>

IsiArr ==
  /\ fam = "isi"
  /\ arr' = isi_arr(args.ffmc, args.ws, args.fbp_mod)
  /\ UNCHANGED <<fam, args, sc, ras, vec, stub, pipe>>

Bui ==
  /\ fam = "bui"
  /\ \E i \in 1..ArrLen : sc' = [i |-> i, res |-> bui(args.dmc[i], args.dc[i])]
  /\ UNCHANGED <<fam, args, arr, ras, vec, stub, pipe>>

BuiArr ==
  /\ fam = "bui"
  /\ arr' = bui_arr(args.dmc, args.dc)
  /\ UNCHANGED <<fam, args, sc, ras, vec, stub, pipe>>

BuildupIndex ==
  /\ fam = "bui"
  /\ ras' = buildup_index(args.dmc, args.dc)
  /\ UNCHANGED <<fam, args, sc, arr, vec, stub, pipe>>

BuildupIndexVectorized ==
  /\ fam = "bui"
  /\ vec' = buildup_index_vectorized(args.dmc, args.dc)
  /\ UNCHANGED <<fam, args, sc, arr, ras, stub, pipe>>

Hffmc ==
  /\ fam = "hffmc"
  /\ \E i \in 1..ArrLen :
       sc' = [i |-> i, res |-> hourly_fine_fuel_moisture_code(
                                 args.temp[i], args.rh[i], args.ws[i], args.prec[i],
                                 args.fo[i], args.t0[i])]
  /\ UNCHANGED <<fam, args, arr, ras, vec, stub, pipe>>

BuildupIndexStub ==
  /\ fam = "bui"
  /\ stub' = buildup_index_raster_buildup_index(args.dc, args.dmc)
  /\ UNCHANGED <<fam, args, sc, arr, ras, vec, pipe>>

Fwi ==
  /\ fam = "fwi"
  /\ \E i \in 1..ArrLen : sc' = [i |-> i, res |-> fwi(args.isi[i], args.bui[i])]
  /\ UNCHANGED <<fam, args, arr, ras, vec, stub, pipe>>

FwiArr ==
  /\ fam = "fwi"
  /\ arr' = fwi_arr(args.isi, args.bui)
  /\ UNCHANGED <<fam, args, sc, ras, vec, stub, pipe>>

\* ---- the inputs ---------------------------------------------------------
NoResults ==
  /\ sc = NoSc /\ arr = NoCall /\ ras = NoCall /\ vec = NoCall /\ stub = NoCall
  /\ pipe = NoPipe

FfmcArgs(G, B) ==
  { [ffmc_yda |-> Col(c, "ffmc_yda"), temp |-> Col(c, "temp"), rh |-> Col(c, "rh"),
     ws |-> Col(c, "ws"), prec |-> Col(c, "prec")] : c \in Cells(G, B) }

\* Weather cells for dmc and dc; `code` is dmc_yda or dc_yda.
CodeArgs(G, B, Mons, Adjusts) ==
  { [code |-> Col(c, "code"), temp |-> Col(c, "temp"), rh |-> Col(c, "rh"),
     prec |-> Col(c, "prec"), lat |-> Col(c, "lat"), mon |-> m, lat_adjust |-> la]
    : c \in Cells(G, B), m \in Mons, la \in Adjusts }

DmcArgs(G, B, Mons, Adjusts) ==
  { [dmc_yda |-> a.code, temp |-> a.temp, rh |-> a.rh, prec |-> a.prec, lat |-> a.lat,
     mon |-> a.mon, lat_adjust |-> a.lat_adjust] : a \in CodeArgs(G, B, Mons, Adjusts) }

DcArgs(G, B, Mons, Adjusts) ==
  { [dc_yda |-> a.code, temp |-> a.temp, rh |-> a.rh, prec |-> a.prec, lat |-> a.lat,
     mon |-> a.mon, lat_adjust |-> a.lat_adjust] : a \in CodeArgs(G, B, Mons, Adjusts) }

IsiArgs(G, B, Flags) ==
  { [ffmc |-> Col(c, "ffmc"), ws |-> Col(c, "ws"), fbp_mod |-> f]
    : c \in Cells(G, B), f \in Flags }

BuiArgs(G, B) == { [dmc |-> Col(c, "dmc"), dc |-> Col(c, "dc")] : c \in Cells(G, B) }

FwiArgs(G, B) == { [isi |-> Col(c, "isi"), bui |-> Col(c, "bui")] : c \in Cells(G, B) }

\* ---- Spec: the functions of fwi.py, fwi_numpy.py and raster/, on inputs at
\* and around the domain limits ----
\* One thousandth outside a limit, the limit itself, and values inside.
EdgeFfmc == {-1, 0, 85 * Q, 101 * Q, 101 * Q + 1}
EdgeRh == {-1, 0, 42 * Q, 100 * Q, 100 * Q + 1}
EdgeMon == {IntMon(0), IntMon(1), IntMon(12), IntMon(13), FloatMon(6)}

EdgeFfmcCells ==
  [ffmc_yda : EdgeFfmc, temp : {17 * Q}, rh : EdgeRh, ws : {-1, 0, 25 * Q},
   prec : {-1, 0, 600}]
BackFfmcCells ==
  { [ffmc_yda |-> 85 * Q, temp |-> 17 * Q, rh |-> 42 * Q, ws |-> 25 * Q, prec |-> 0],
    [ffmc_yda |-> 85 * Q, temp |-> 17 * Q, rh |-> 42 * Q, ws |-> -1, prec |-> 0] }

EdgeCodeCells ==
  [code : {-1, 0, 40 * Q}, temp : {17 * Q}, rh : {-1, 0, 100 * Q, 100 * Q + 1},
   prec : {-1, 0, 3 * Q}, lat : {46 * Q, -46 * Q}]
BackCodeCells ==
  { [code |-> 8 * Q, temp |-> 17 * Q, rh |-> 42 * Q, prec |-> 0, lat |-> 46 * Q],
    [code |-> 8 * Q, temp |-> 17 * Q, rh |-> 42 * Q, prec |-> -1, lat |-> 46 * Q] }

EdgeIsiCells == [ffmc : EdgeFfmc, ws : {-1, 0, 40 * Q}]
BackIsiCells == { [ffmc |-> 85 * Q, ws |-> 25 * Q], [ffmc |-> 85 * Q, ws |-> -1] }

EdgeBuiCells == [dmc : {-1, 0, 8 * Q}, dc : {-1, 0, 15 * Q}]
BackBuiCells == { [dmc |-> 8 * Q, dc |-> 15 * Q], [dmc |-> 8 * Q, dc |-> -1] }

EdgeFwiCells == [isi : {-1, 0, 10 * Q}, bui : {-1, 0, 90 * Q}]
BackFwiCells == { [isi |-> 10 * Q, bui |-> 8 * Q], [isi |-> 10 * Q, bui |-> -1] }

Init ==
  /\ NoResults
  /\ \/ fam = "ffmc" /\ args \in FfmcArgs(EdgeFfmcCells, BackFfmcCells)
     \/ fam = "dmc" /\ args \in DmcArgs(EdgeCodeCells, BackCodeCells, EdgeMon, {TRUE})
     \/ fam = "dc" /\ args \in DcArgs(EdgeCodeCells, BackCodeCells, EdgeMon, {TRUE})
     \/ fam = "isi" /\ args \in IsiArgs(EdgeIsiCells, BackIsiCells, BOOLEAN)
     \/ fam = "bui" /\ args \in BuiArgs(EdgeBuiCells, BackBuiCells)
     \/ fam = "fwi" /\ args \in FwiArgs(EdgeFwiCells, BackFwiCells)

Next ==
  \/ Ffmc \/ FfmcArr \/ Dmc \/ DmcArr \/ Dc \/ DcArr \/ Isi \/ IsiArr
  \/ Bui \/ BuiArr \/ BuildupIndex \/ BuildupIndexVectorized \/ Fwi \/ FwiArr

Spec == Init /\ [][Next]_vars

\* ---- SpecDmc: dmc and dmc_arr on valid inputs ----------------------------
\* Latitudes at, one thousandth beside and between the limits of the bands.
LatGrid ==
  {-90 * Q, -60 * Q, -30 * Q - 1, -30 * Q, -30 * Q + 1, -10 * Q - 1, -10 * Q, -10 * Q + 1,
   0, 10 * Q - 1, 10 * Q, 10 * Q + 1, 30 * Q - 1, 30 * Q, 30 * Q + 1, 90 * Q}

\* Cells over the regimes of dmc_yda, temp and prec at the reference
\* latitude, and cells over the latitudes in dry weather.
DmcCells ==
  [code : {0, 20 * Q, 33 * Q, 50 * Q, 65 * Q, 80 * Q}, temp : {-5 * Q, 0, 1100, 17 * Q},
   rh : {42 * Q}, prec : {0, 1500, 1501, 10 * Q}, lat : {46 * Q}]
    \cup [code : {20 * Q}, temp : {17 * Q}, rh : {42 * Q, 100 * Q}, prec : {0}, lat : LatGrid]
BackDmcCells ==
  { [code |-> 8 * Q, temp |-> 17 * Q, rh |-> 42 * Q, prec |-> 0, lat |-> 46 * Q] }

InitDmc ==
  /\ NoResults
  /\ fam = "dmc"
  /\ args \in DmcArgs(DmcCells, BackDmcCells, {IntMon(1), IntMon(6), IntMon(12)}, BOOLEAN)

NextDmc == Dmc \/ DmcArr

SpecDmc == InitDmc /\ [][NextDmc]_vars

\* ---- SpecDc: dc and dc_arr on valid inputs --------------------------------
\* Latitudes at, one thousandth beside and away from the limits 20 and -20.
DcLatGrid ==
  {-90 * Q, -46 * Q, -20 * Q - 1, -20 * Q, -20 * Q + 1, 0, 20 * Q - 1, 20 * Q, 20 * Q + 1, 46 * Q}

\* Cells over the regimes of dc_yda, temp and prec at the reference
\* latitude, and cells over the latitudes.
DcCells ==
  [code : {0, 300 * Q, 2100 * Q}, temp : {-5 * Q, 2800, 17 * Q}, rh : {42 * Q},
   prec : {0, 2800, 2801, 10 * Q}, lat : {46 * Q}]
    \cup [code : {300 * Q}, temp : {-5 * Q, 17 * Q}, rh : {42 * Q}, prec : {0, 10 * Q},
          lat : DcLatGrid]
BackDcCells ==
  { [code |-> 8 * Q, temp |-> 17 * Q, rh |-> 42 * Q, prec |-> 0, lat |-> 46 * Q] }

InitDc ==
  /\ NoResults
  /\ fam = "dc"
  /\ args \in DcArgs(DcCells, BackDcCells, {IntMon(m) : m \in 1..12}, BOOLEAN)

NextDc == Dc \/ DcArr

SpecDc == InitDc /\ [][NextDc]_vars

\* ---- SpecFfmc: ffmc and ffmc_arr on valid inputs --------------------------
\* Yesterday's codes at both limits, with a pre-rain moisture above 150
\* (10), near the equilibria (89) and ordinary (85); prec at and beside the
\* gate 0.5 and in heavy rain; calm to storm wind; frost to the heat of a
\* fire front.
FfmcCells ==
  [ffmc_yda : {0, 10 * Q, 85 * Q, 89 * Q, 101 * Q}, temp : {-5 * Q, 17 * Q, 45 * Q, 200 * Q},
   rh : {0, 42 * Q, 100 * Q}, ws : {0, 25 * Q, 100 * Q},
   prec : {0, 500, 501, 3 * Q, 50 * Q}]
BackFfmcValid ==
  { [ffmc_yda |-> 85 * Q, temp |-> 17 * Q, rh |-> 42 * Q, ws |-> 25 * Q, prec |-> 0] }

InitFfmc ==
  /\ NoResults
  /\ fam = "ffmc"
  /\ args \in FfmcArgs(FfmcCells, BackFfmcValid)

NextFfmc == Ffmc \/ FfmcArr

SpecFfmc == InitFfmc /\ [][NextFfmc]_vars

\* ---- SpecBui: the four BUI implementations on valid inputs ---------------
\* dmc and dc at 0, just above 0, below and above the correction
\* coefficient cc (about 0.92), and over the range of a fire season.
BuiCells ==
  [dmc : {0, 1, 500, 8 * Q, 100 * Q, 300 * Q}, dc : {0, 10, 15 * Q, 100 * Q, 800 * Q}]
BackBuiValid == { [dmc |-> 8 * Q, dc |-> 15 * Q] }

InitBui ==
  /\ NoResults
  /\ fam = "bui"
  /\ args \in BuiArgs(BuiCells, BackBuiValid)

NextBui == Bui \/ BuiArr \/ BuildupIndex \/ BuildupIndexVectorized

SpecBui == InitBui /\ [][NextBui]_vars

\* ---- SpecRaster: the two raster buildup_index functions, which validate
\* nothing, on rasters of any numbers ----------------------------------------
\* Cells of the test rasters (0, 100, -1), a cell whose denominator
\* dmc + 0.4 * dc is 0 without both being 0 (-1, 2.5), and ordinary cells.
RasterCells ==
  [dmc : {-1 * Q, 0, 8 * Q, 100 * Q}, dc : {-1 * Q, 0, 2500, 10 * Q, 100 * Q}]

InitRaster ==
  /\ NoResults
  /\ fam = "bui"
  /\ args \in BuiArgs(RasterCells, RasterCells)

NextRaster == BuildupIndex \/ BuildupIndexStub

SpecRaster == InitRaster /\ [][NextRaster]_vars

\* ---- SpecHffmc: the hourly FFMC ------------------------------------------
\* Weather at and around the limits of rh, prec and ws, with the default
\* fo = 85 and t0 = 1, and previous codes fo at, beside and beyond the
\* limits 0 and 101 in an hour with rain.
HffmcArgs(G, B) ==
  { [temp |-> Col(c, "temp"), rh |-> Col(c, "rh"), ws |-> Col(c, "ws"),
     prec |-> Col(c, "prec"), fo |-> Col(c, "fo"), t0 |-> Col(c, "t0")] : c \in Cells(G, B) }

HffmcCells ==
  [temp : {-5 * Q, 17 * Q, 45 * Q}, rh : {-1, 0, 42 * Q, 100 * Q, 100 * Q + 1},
   ws : {-1, 0, 25 * Q}, prec : {-1, 0, 1, 500, 2 * Q, 50 * Q}, fo : {85 * Q}, t0 : {Q}]
    \cup [temp : {17 * Q}, rh : {42 * Q, 100 * Q}, ws : {0, 25 * Q}, prec : {500, 50 * Q},
          fo : {-10 * Q, -1, 0, 10 * Q, 101 * Q, 101 * Q + 1, 150 * Q}, t0 : {500, Q}]
BackHffmcCells ==
  { [temp |-> 17 * Q, rh |-> 42 * Q, ws |-> 25 * Q, prec |-> 500, fo |-> 85 * Q, t0 |-> Q] }

InitHffmc ==
  /\ NoResults
  /\ fam = "hffmc"
  /\ args \in HffmcArgs(HffmcCells, BackHffmcCells)

NextHffmc == Hffmc

SpecHffmc == InitHffmc /\ [][NextHffmc]_vars

\* ---- SpecFwi: fwi and fwi_arr on valid inputs ------------------------------
\* bui at 0, at and beside the regime limit 80, over a fire season and far
\* beyond it; isi at 0 and giving bb below, at (isi = 5, bui = 0) and above 1.
FwiCells ==
  [isi : {0, 400, 5 * Q, 10 * Q, 50 * Q},
   bui : {0, 8 * Q, 80 * Q, 80 * Q + 1, 90 * Q, 300 * Q, 31000 * Q}]
BackFwiValid == { [isi |-> 10 * Q, bui |-> 8 * Q], [isi |-> 0, bui |-> 90 * Q] }

InitFwi ==
  /\ NoResults
  /\ fam = "fwi"
  /\ args \in FwiArgs(FwiCells, BackFwiValid)

NextFwi == Fwi \/ FwiArr

SpecFwi == InitFwi /\ [][NextFwi]_vars

\* ---- SpecIsi: isi and isi_arr on valid inputs, with and without fbp_mod ----
\* ws at calm, below, one thousandth either side of and at 40 km/h, and in a
\* gale; ffmc at both ends of its range and inside.
IsiCells ==
  [ffmc : {0, 85 * Q, 101 * Q},
   ws : {0, 25 * Q, 40 * Q - 1, 40 * Q, 40 * Q + 1, 100 * Q}]
BackIsiValid == { [ffmc |-> 85 * Q, ws |-> 25 * Q], [ffmc |-> 92 * Q, ws |-> 40 * Q] }

InitIsi ==
  /\ NoResults
  /\ fam = "isi"
  /\ args \in IsiArgs(IsiCells, BackIsiValid, BOOLEAN)

NextIsi == Isi \/ IsiArr

SpecIsi == InitIsi /\ [][NextIsi]_vars

\* ---- SpecPipeline: a caller carrying the codes from day to day -------------
\* The codes ffmc, dmc and dc returned for one day are the ffmc_yda, dmc_yda
\* and dc_yda of the next; isi, bui and fwi are computed from the day's codes.
MaxDays == 3

\* One day's weather and month.
Weather ==
  { [temp |-> 30 * Q, rh |-> 20 * Q,  ws |-> 25 * Q, prec |-> 0,      mon |-> 7],
    [temp |-> -5 * Q, rh |-> 80 * Q,  ws |-> 10 * Q, prec |-> 0,      mon |-> 1],
    [temp |-> 17 * Q, rh |-> 90 * Q,  ws |-> 0,      prec |-> Q,      mon |-> 6],
    [temp |-> 10 * Q, rh |-> 100 * Q, ws |-> 40 * Q, prec |-> 50 * Q, mon |-> 9],
    [temp |-> 2 * Q,  rh |-> 60 * Q,  ws |-> 5 * Q,  prec |-> 3 * Q,  mon |-> 12] }

\* The codes a run starts from, each in its domain.
StartFfmc == {0, 85 * Q, 101 * Q}
StartDmc == {0, 6 * Q, 300 * Q}
StartDc == {0, 15 * Q, 2025 * Q}

\* The indices of a day, from the day's codes f, d, c and the isi and bui
\* computed from them; an index is computed when its inputs were returned.
PipeFwi(n, f, d, c, i, b) ==
  [n |-> n, ffmc |-> f, dmc |-> d, dc |-> c, isi |-> i, bui |-> b,
   fwi |-> IF i.kind = "ok" /\ b.kind = "ok" THEN fwi(i.val, b.val) ELSE NoCall]

PipeIndices(n, f, d, c, ws) ==
  PipeFwi(n, f, d, c,
          IF f.kind = "ok" THEN isi(f.val, ws, FALSE) ELSE NoCall,
          IF d.kind = "ok" /\ c.kind = "ok" THEN bui(d.val, c.val) ELSE NoCall)

\* One day: today's codes from yesterday's and the weather w.
PipeDay(p, w, lat, lat_adjust) ==
  PipeIndices(p.n + 1,
              ffmc(p.ffmc.val, w.temp, w.rh, w.ws, w.prec),
              dmc(p.dmc.val, w.temp, w.rh, w.prec, lat, IntMon(w.mon), lat_adjust),
              dc(p.dc.val, w.temp, w.rh, w.prec, lat, IntMon(w.mon), lat_adjust),
              w.ws)

\* The codes of the last day were all returned.
CodesReturned(p) == p.ffmc.kind = "ok" /\ p.dmc.kind = "ok" /\ p.dc.kind = "ok"

Day ==
  /\ fam = "pipeline"
  /\ pipe.n < MaxDays
  /\ CodesReturned(pipe)
  /\ \E w \in Weather : pipe' = PipeDay(pipe, w, args.lat, args.lat_adjust)
  /\ UNCHANGED <<fam, args, sc, arr, ras, vec, stub>>

InitPipeline ==
  /\ fam = "pipeline"
  /\ args \in [lat : {46 * Q, -30 * Q}, lat_adjust : BOOLEAN]
  /\ sc = NoSc /\ arr = NoCall /\ ras = NoCall /\ vec = NoCall /\ stub = NoCall
  /\ \E f \in StartFfmc, d \in StartDmc, c \in StartDc :
       pipe = [n |-> 0, ffmc |-> Ok(f), dmc |-> Ok(d), dc |-> Ok(c),
               isi |-> NoCall, bui |-> NoCall, fwi |-> NoCall]

NextPipeline == Day

SpecPipeline == InitPipeline /\ [][NextPipeline]_vars

\* ============================ the claims =================================
\* The validated arguments of each family and their domains, as the
\* contracts of the functions state them: f is in [lo, hi] when capped,
\* and at least lo otherwise.
Lower(f) == [f |-> f, lo |-> 0, hi |-> 0, capped |-> FALSE]
Range(f, hi) == [f |-> f, lo |-> 0, hi |-> hi, capped |-> TRUE]

Domain(f) ==
  CASE f = "ffmc" -> {Range("ffmc_yda", 101 * Q), Range("rh", 100 * Q), Lower("prec"), Lower("ws")}
    [] f = "dmc"  -> {Lower("dmc_yda"), Range("rh", 100 * Q), Lower("prec")}
    [] f = "dc"   -> {Lower("dc_yda"), Range("rh", 100 * Q), Lower("prec")}
    [] f = "isi"  -> {Range("ffmc", 101 * Q), Lower("ws")}
    [] f = "bui"  -> {Lower("dmc"), Lower("dc")}
    [] f = "fwi"  -> {Lower("isi"), Lower("bui")}

OutOf(d, v) == v < d.lo \/ (d.capped /\ v > d.hi)

\* The families whose functions take a month, and a valid calendar month.
HasMon == fam \in {"dmc", "dc"}
MonthOk(m) == m.isint /\ m.v \in 1..12

\* The out-of-domain arguments of the scalar call on cell i, each with its
\* name and its value.
ScalarOffences(i) ==
  { <<d.f, args[d.f][i]>> : d \in {e \in Domain(fam) : OutOf(e, args[e.f][i])} }
    \cup (IF HasMon /\ ~MonthOk(args.mon) THEN {<<"mon", ScalarMon(args.mon).v>>} ELSE {})

\* The out-of-domain arguments of the array call: an array is out of domain
\* when one of its elements is.
ArrayOffences ==
  { <<d.f, args[d.f]>>
      : d \in {e \in Domain(fam) : \E i \in 1..ArrLen : OutOf(e, args[e.f][i])} }
    \cup (IF HasMon /\ ~MonthOk(args.mon) THEN {<<"mon", ArrayMon(args.mon).v>>} ELSE {})

\* The names a domain-error message can carry.
DomainFields ==
  {d.f : d \in UNION {Domain(f) : f \in {"ffmc", "dmc", "dc", "isi", "bui", "fwi"}}}
    \cup {"mon"}

\* The domain error: the ValueError of input validation, whose message
\* names an argument.
IsDomainError(r) == r.kind = "ValueError" /\ r.field \in DomainFields

\* C1: a scalar function raises the domain error exactly when an argument
\* of the call is outside its domain (a limit itself is inside), it does so
\* whatever the rest of the function would do with the arguments, and the
\* error carries an offending argument as it was passed, not a clamped one.
C1_ScalarValidation ==
  sc.i # 0 =>
    /\ (ScalarOffences(sc.i) # {}) <=> IsDomainError(sc.res)
    /\ ScalarOffences(sc.i) # {} =>
         sc.res.val \in {o[2] : o \in ScalarOffences(sc.i)}

\* dc is given rh just above 100 with month 12 south of 20 S, where its
\* table read is out of range: the domain error for rh is what is raised.
C1_Witness ==
  /\ fam = "dc" /\ sc.i # 0
  /\ args.mon = IntMon(12) /\ args.lat[sc.i] = -46 * Q
  /\ sc.res = Invalid("rh", 100 * Q + 1)

\* C2: an array function raises, and returns no array, exactly when some
\* element of a validated array (or the month) is outside its domain;
\* otherwise it returns an array of the inputs' shape.
C2_ArrayValidation ==
  arr # NoCall =>
    /\ (ArrayOffences = {}) <=> arr.kind = "ok"
    /\ arr.kind = "ok" => DOMAIN arr.val = 1..ArrLen
    /\ arr.kind # "ok" => arr.kind \in {"ValueError", "NameError"}

\* An array call with one cell in domain and another outside it was
\* rejected as a whole.
C2_Witness ==
  /\ arr # NoCall /\ arr.kind # "ok"
  /\ ~HasMon \/ MonthOk(args.mon)
  /\ \E i, j \in 1..ArrLen :
       /\ \A d \in Domain(fam) : ~OutOf(d, args[d.f][i])
       /\ \E d \in Domain(fam) : OutOf(d, args[d.f][j])

\* C3: every rejection of an out-of-domain input, scalar or array, is a
\* ValueError whose message names an offending argument and shows its value.
C3_RejectionNamesField ==
  /\ sc.i # 0 /\ ScalarOffences(sc.i) # {} =>
       sc.res.kind = "ValueError" /\ <<sc.res.field, sc.res.val>> \in ScalarOffences(sc.i)
  /\ arr # NoCall /\ ArrayOffences # {} =>
       arr.kind = "ValueError" /\ <<arr.field, arr.val>> \in ArrayOffences

\* C4: for valid inputs and the same calendar month, dmc on cell i and
\* element i of dmc_arr are the same value.
C4_DmcAgree ==
  fam = "dmc" /\ sc.i # 0 /\ sc.res.kind = "ok" /\ arr.kind = "ok" =>
    sc.res.val = arr.val[sc.i]

\* C5: for valid inputs, any latitude and the same calendar month, dc on
\* cell i returns a value and it is element i of what dc_arr returns.
C5_DcAgree ==
  fam = "dc" /\ sc.i # 0 /\ arr.kind = "ok" =>
    sc.res.kind = "ok" /\ sc.res.val = arr.val[sc.i]

\* C6: ffmc and ffmc_arr, and isi and isi_arr, use the identical
\* coefficient, and for valid inputs the scalar function on cell i returns
\* element i of what the array function returns.
C6_SameCoefficient ==
  fam \in {"ffmc", "isi"} /\ sc.i # 0 /\ sc.res.kind = "ok" /\ arr.kind = "ok" =>
    FFMC_COEFFICIENT = ARR_COEFFICIENT /\ sc.res.val = arr.val[sc.i]

\* C7: on rasters of non-negative dmc and dc, the raster buildup_index,
\* bui_arr and buildup_index_vectorized return the same value in every cell.
C7_BuiAgree ==
  /\ fam = "bui" /\ ArrayOffences = {}
  /\ ras # NoCall /\ arr # NoCall /\ vec # NoCall
  => /\ ras.kind = "ok" /\ arr.kind = "ok" /\ vec.kind = "ok"
     /\ ras.val = arr.val /\ arr.val = vec.val

\* A valid value of each array argument, away from the values the inputs
\* of Spec are drawn from.
Reference(f) ==
  CASE f \in {"ffmc_yda", "ffmc"} -> 50 * Q
    [] f = "temp" -> 10 * Q
    [] f = "rh" -> 60 * Q
    [] f = "ws" -> 10 * Q
    [] f = "prec" -> 5 * Q
    [] f \in {"dmc_yda", "dmc"} -> 30 * Q
    [] f \in {"dc_yda", "dc"} -> 200 * Q
    [] f = "lat" -> -46 * Q
    [] f = "isi" -> 5 * Q
    [] f = "bui" -> 100 * Q

\* The inputs with every element but the one at index i replaced.
Others(i) ==
  [f \in DOMAIN args |->
     IF f \in {"mon", "lat_adjust", "fbp_mod"} THEN args[f]
     ELSE [j \in 1..ArrLen |-> IF j = i THEN args[f][j] ELSE Reference(f)]]

\* The array function of the family called on inputs a.
ArrCall(a) ==
  CASE fam = "ffmc" -> ffmc_arr(a.ffmc_yda, a.temp, a.rh, a.ws, a.prec)
    [] fam = "dmc" -> dmc_arr(a.dmc_yda, a.temp, a.rh, a.prec, a.lat, ArrayMon(a.mon),
                              a.lat_adjust)
    [] fam = "dc" -> dc_arr(a.dc_yda, a.temp, a.rh, a.prec, a.lat, ArrayMon(a.mon),
                            a.lat_adjust)
    [] fam = "isi" -> isi_arr(a.ffmc, a.ws, a.fbp_mod)
    [] fam = "bui" -> bui_arr(a.dmc, a.dc)
    [] fam = "fwi" -> fwi_arr(a.isi, a.bui)

\* Element i of a returned array is what the same function returns at i
\* when all the other elements of its inputs are replaced by other valid
\* values.
ElementWise ==
  /\ arr.kind = "ok" =>
       \A i \in 1..ArrLen :
         ArrCall(Others(i)).kind = "ok" /\ ArrCall(Others(i)).val[i] = arr.val[i]
  /\ ras.kind = "ok" /\ ArrayOffences = {} =>
       \A i \in 1..ArrLen :
         buildup_index(Others(i).dmc, Others(i).dc).val[i] = ras.val[i]

BandSource(lat) ==
  IF lat > 30 * Q THEN "ell01"
  ELSE IF lat > 10 * Q THEN "ell02"
  ELSE IF lat > -10 * Q THEN "nine"
  ELSE IF lat > -30 * Q THEN "ell03"
  ELSE "ell04"

BandDayLength(lat, i) ==
  CASE BandSource(lat) = "ell01" -> PyAt(ell01, i)
    [] BandSource(lat) = "ell02" -> PyAt(ell02, i)
    [] BandSource(lat) = "ell03" -> PyAt(ell03, i)
    [] BandSource(lat) = "ell04" -> PyAt(ell04, i)
    [] BandSource(lat) = "nine" -> 9 * Q

\* The orders in which four band tests can be applied.
BandOrders == { o \in [1..4 -> 1..4] : \A a, b \in 1..4 : o[a] = o[b] => a = b }

\* At most one band test of the sequence of bands holds.
OneBand(bands) == Cardinality({k \in 1..4 : bands[k].hit}) <= 1

StatedDcSources(lat) ==
  IF lat >= 20 * Q THEN {"fl01"}
  ELSE IF lat < -20 * Q THEN {"fl02"}
  ELSE IF lat = -20 * Q THEN {"fl02", "equator"}
  ELSE {"equator"}

\* The day-length source of dc with the limits the other way round: the
\* northern table north of 20, the southern table at and south of -20,
\* 1.4 for -20 < lat <= 20.
AmendedDcSource(lat) ==
  IF lat > 20 * Q THEN "fl01" ELSE IF lat > -20 * Q THEN "equator" ELSE "fl02"

\* The values pe can have for a temperature when the day-length factor
\* comes from source src in calendar month m: clamped at 0.
PeOf(temp, src, m) ==
  CASE src = "fl01" -> {Floor0(dc_eq22(dc_temp(temp), fl01[m]))}
    [] src = "equator" -> {Floor0(dc_eq22(dc_temp(temp), 1400))}
    [] src = "fl02" -> {Floor0(dc_eq22(dc_temp(temp), fl02[k])) : k \in 1..12}

\* The source dc took for the cell, a read past the end of fl02 counting
\* as a read of fl02.
DcTook(day) == IF day.src = "IndexError" THEN "fl02" ELSE day.src

\* C10 as stated: with latitude adjustment on, dc and dc_arr take the
\* day-length factor of every cell from the stated source (fl01 at lat = 20
\* included), and the pe in a value returned on a day without rain is the
\* clamped pe of that source.
C10_StatedSource ==
  fam = "dc" /\ args.lat_adjust =>
    \A i \in 1..ArrLen :
      /\ DcTook(dc_daylength(args.lat[i], args.mon.v - 1, args.mon.v, TRUE))
           \in StatedDcSources(args.lat[i])
      /\ dc_arr_daylength(args.lat[i], args.mon.v - 1, TRUE).src
           \in StatedDcSources(args.lat[i])
      /\ sc.i = i /\ sc.res.kind = "ok" /\ args.prec[i] = 0 =>
           sc.res.val - args.dc_yda[i]
             \in UNION {PeOf(args.temp[i], src, args.mon.v) : src \in StatedDcSources(args.lat[i])}
      /\ arr.kind = "ok" /\ args.prec[i] = 0 =>
           arr.val[i] - args.dc_yda[i]
             \in UNION {PeOf(args.temp[i], src, args.mon.v) : src \in StatedDcSources(args.lat[i])}

\* C10 amended: with latitude adjustment on, dc and dc_arr take the
\* day-length factor of every cell from exactly one source: fl01 for
\* lat > 20, the constant 1.4 for -20 < lat <= 20 (lat = 20 included), fl02
\* for lat <= -20 (lat = -20 included); and the pe in a value returned on a
\* day without rain is the pe of that source, clamped to >= 0.
C10_AmendedSource ==
  fam = "dc" /\ args.lat_adjust =>
    \A i \in 1..ArrLen :
      /\ DcTook(dc_daylength(args.lat[i], args.mon.v - 1, args.mon.v, TRUE))
           = AmendedDcSource(args.lat[i])
      /\ dc_arr_daylength(args.lat[i], args.mon.v - 1, TRUE).src = AmendedDcSource(args.lat[i])
      /\ sc.i = i /\ sc.res.kind = "ok" /\ args.prec[i] = 0 =>
           /\ sc.res.val >= args.dc_yda[i]
           /\ sc.res.val - args.dc_yda[i]
                \in PeOf(args.temp[i], AmendedDcSource(args.lat[i]), args.mon.v)
      /\ arr.kind = "ok" /\ args.prec[i] = 0 =>
           /\ arr.val[i] >= args.dc_yda[i]
           /\ arr.val[i] - args.dc_yda[i]
                \in PeOf(args.temp[i], AmendedDcSource(args.lat[i]), args.mon.v)

\* dc and dc_arr have answered for a cell at lat = 20 exactly in July
\* without rain, and both added the pe of the constant 1.4, not of fl01.
C10_Witness ==
  /\ fam = "dc" /\ args.lat_adjust /\ args.mon = IntMon(7) /\ sc.i # 0
  /\ args.lat[sc.i] = 20 * Q /\ args.prec[sc.i] = 0 /\ args.temp[sc.i] = 17 * Q
  /\ sc.res = Ok(args.dc_yda[sc.i] + dc_eq22(17 * Q, 1400))
  /\ arr.kind = "ok" /\ arr.val[sc.i] = sc.res.val
  /\ dc_eq22(17 * Q, 1400) # dc_eq22(17 * Q, fl01[7])

\* ---- C11 ----------------------------------------------------------------
\* A returned FFMC: a number in [0, 101].
InFfmcRange(v) == 0 <= v /\ v <= 101 * Q

\* C11: on every valid input ffmc returns a value in [0, 101] without
\* raising, and so does every element of ffmc_arr; the call with
\* ffmc_yda = 0, rh = 100, prec = 0, ws = 0 is one of them.
C11_FfmcTotal ==
  /\ sc.i # 0 => sc.res.kind = "ok" /\ InFfmcRange(sc.res.val)
  /\ arr # NoCall =>
       arr.kind = "ok" /\ \A i \in 1..ArrLen : InFfmcRange(arr.val[i])

\* The boundary call of the claim has been made and returned.
C11_Witness ==
  /\ sc.i # 0 /\ sc.res.kind = "ok"
  /\ args.ffmc_yda[sc.i] = 0 /\ args.rh[sc.i] = 100 * Q
  /\ args.prec[sc.i] = 0 /\ args.ws[sc.i] = 0

\* ---- C12 ----------------------------------------------------------------
\* bui1 of the scalar bui, as first assigned (Eq. 27a).
Bui1Of(dmc0, dc0) == IF dmc0 = 0 /\ dc0 = 0 THEN 0 ELSE bui_eq27a(dmc0, dc0)

\* C12: bui(0, 0) returns 0, and bui_arr returns 0 in every element where
\* dmc = dc = 0; whenever dmc = 0 the correction fraction p is 0 and
\* neither function divides by dmc for that input.
C12_ZeroDmc ==
  /\ sc.i # 0 /\ sc.res.kind = "ok" /\ args.dmc[sc.i] = 0 =>
       /\ args.dc[sc.i] = 0 => sc.res.val = 0
       /\ bui_p(0, Bui1Of(0, args.dc[sc.i])) = 0
       /\ ~bui_p_divides(args.dmc[sc.i])
  /\ arr.kind = "ok" =>
       \A i \in 1..ArrLen :
         args.dmc[i] = 0 =>
           /\ args.dc[i] = 0 => arr.val[i] = 0
           /\ bui_p(0, bui_arr_bui1(0, args.dc[i])) = 0
           /\ i \notin bui_arr_p_divides(args.dmc)

\* The values alone: bui and bui_arr give 0 for dmc = dc = 0.
C12_ZeroValue ==
  /\ sc.i # 0 /\ sc.res.kind = "ok" /\ args.dmc[sc.i] = 0 /\ args.dc[sc.i] = 0 =>
       sc.res.val = 0
  /\ arr.kind = "ok" =>
       \A i \in 1..ArrLen : args.dmc[i] = 0 /\ args.dc[i] = 0 => arr.val[i] = 0

\* ---- C13 ----------------------------------------------------------------
\* What the claim asks of a call on the rasters: it returned an array of
\* numbers, none of them nan, with 0 in every cell whose denominator
\* dmc + 0.4 * dc is 0.
GoodRaster(r) ==
  /\ r.kind = "ok"
  /\ r # None
  /\ \A i \in 1..ArrLen :
       /\ r.val[i] # NaN
       /\ args.dmc[i] + Scl(args.dc[i], 4, 10) = 0 => r.val[i] = 0

\* C13: on any pair of rasters of the same shape, buildup_index returns
\* (it neither raises nor returns None) an array without nan, in which every
\* cell whose denominator dmc + 0.4 * dc is 0 holds 0 whatever the other
\* cells hold; this for the function of either module.
C13_RasterTotal ==
  /\ ras # NoCall => GoodRaster(ras)
  /\ stub # NoCall => GoodRaster(stub)

\* The part of C13 about zero denominators, for the function of
\* raster/buildup_index_raster.py alone.
C13_ZeroDenominator ==
  ras # NoCall =>
    \A i \in 1..ArrLen :
      args.dmc[i] + Scl(args.dc[i], 4, 10) = 0 => ras.val[i] = 0

\* ---- C14 ----------------------------------------------------------------
\* The scalar bui has returned for a valid pair that is not (0, 0).
BuiReturned ==
  /\ fam = "bui" /\ sc.i # 0 /\ sc.res.kind = "ok"
  /\ args.dmc[sc.i] >= 0 /\ args.dc[sc.i] >= 0
  /\ ~(args.dmc[sc.i] = 0 /\ args.dc[sc.i] = 0)

\* The corrective branch: bui1 < dmc.
Corrective == Bui1Of(args.dmc[sc.i], args.dc[sc.i]) < args.dmc[sc.i]

\* bui0 of the call as returned: dmc - cc * p, floored at 0.
Bui0Of(dmc0, dc0) ==
  Floor0(bui_eq27b(dmc0, bui_p(dmc0, Bui1Of(dmc0, dc0))))

\* C14 as stated: for dmc >= 0 and dc >= 0 not both zero bui is >= 0, and
\* when the corrective branch is taken the value returned is bui0 and is
\* at most bui1.
C14_StatedBound ==
  BuiReturned =>
    /\ sc.res.val >= 0
    /\ Corrective =>
         /\ sc.res.val = Bui0Of(args.dmc[sc.i], args.dc[sc.i])
         /\ sc.res.val <= Bui1Of(args.dmc[sc.i], args.dc[sc.i])

\* C14 amended: for dmc >= 0 and dc >= 0 not both zero bui is >= 0; when
\* the corrective branch is taken the value returned is bui0 floored at 0,
\* it is at most dmc, and it is at least bui1 when dmc >= cc and at most
\* bui1 when dmc <= cc; otherwise the value returned is bui1.
C14_AmendedBound ==
  BuiReturned =>
    /\ sc.res.val >= 0
    /\ Corrective =>
         /\ sc.res.val = Bui0Of(args.dmc[sc.i], args.dc[sc.i])
         /\ sc.res.val <= args.dmc[sc.i]
         /\ args.dmc[sc.i] >= bui_cc(args.dmc[sc.i]) =>
              sc.res.val >= Bui1Of(args.dmc[sc.i], args.dc[sc.i])
         /\ args.dmc[sc.i] <= bui_cc(args.dmc[sc.i]) =>
              sc.res.val <= Bui1Of(args.dmc[sc.i], args.dc[sc.i])
    /\ ~Corrective => sc.res.val = Bui1Of(args.dmc[sc.i], args.dc[sc.i])

\* bui(8, 15) took the corrective branch and returned more than bui1.
C14_Witness ==
  /\ BuiReturned /\ Corrective
  /\ args.dmc[sc.i] = 8 * Q /\ args.dc[sc.i] = 15 * Q
  /\ sc.res.val > Bui1Of(8 * Q, 15 * Q)

\* ---- C15 ----------------------------------------------------------------
\* The hourly FFMC has been called on cell sc.i.
HffmcCalled == fam = "hffmc" /\ sc.i # 0

\* rh, prec and ws of the call are in their domains.
HffmcWeatherOk ==
  /\ 0 <= args.rh[sc.i] /\ args.rh[sc.i] <= 100 * Q
  /\ args.prec[sc.i] >= 0
  /\ args.ws[sc.i] >= 0

\* C15: hourly_fine_fuel_moisture_code raises only for rh outside
\* [0, 100], prec < 0 or ws < 0; with rh, prec and ws in domain (an hour
\* without rain, prec = 0, included) and the defaults fo = 85 and t0 = 1
\* it raises nothing and returns a value >= 0.
C15_HffmcTotal ==
  HffmcCalled /\ args.fo[sc.i] = 85 * Q /\ args.t0[sc.i] = Q =>
    /\ sc.res.kind # "ok" => ~HffmcWeatherOk
    /\ HffmcWeatherOk => sc.res.kind = "ok" /\ sc.res.val >= 0

\* ---- C16 ----------------------------------------------------------------
\* C16: hourly_fine_fuel_moisture_code rejects a previous code fo outside
\* [0, 101] with the domain error for fo, as ffmc does for ffmc_yda and isi
\* for ffmc; it returns nothing computed from such an fo.
C16_HffmcRejectsFo ==
  HffmcCalled /\ HffmcWeatherOk /\ (args.fo[sc.i] < 0 \/ args.fo[sc.i] > 101 * Q) =>
    sc.res.kind = "ValueError" /\ sc.res.field = "fo"

\* ---- C17 ----------------------------------------------------------------
\* The rain step as the claim states it, on the moisture wmo of Eq. 1:
\* nothing for prec <= 0.5; for prec > 0.5 the absorption formula with
\* ra = prec - 0.5, plus the polynomial term exactly when wmo > 150; then
\* the cap at 250.
StatedRain(wmo, prec) ==
  IF prec <= 500 THEN wmo
  ELSE Min2(250 * Q,
            wmo + ffmc_absorb(wmo, prec - 500)
                + (IF wmo > 150 * Q THEN ffmc_corr(wmo, prec - 500) ELSE 0))

\* Eq. 1 of ffmc and of ffmc_arr.
Eq1Of(f) == ffmc_eq1(FFMC_COEFFICIENT, f)
Eq1ArrOf(f) == FDiv(FMul(101 * Q - f, ARR_COEFFICIENT), 59500 + f)

\* The result ffmc gives when the moisture after the rain step is wmo.
FfmcFrom(wmo, i) ==
  ffmc_eq10(FFMC_COEFFICIENT,
            ffmc_regime(wmo, ffmc_ed(args.temp[i], args.rh[i]),
                        ffmc_ew(args.temp[i], args.rh[i]),
                        args.temp[i], args.rh[i], args.ws[i]))

\* The element ffmc_arr gives when the moisture after the rain step is wmo.
FfmcArrFrom(wmo, i) ==
  ffmc_arr_eq10(
    ffmc_arr_regime(wmo, ffmc_ed(args.temp[i], args.rh[i]),
                    ffmc_ew(args.temp[i], args.rh[i]),
                    args.temp[i], args.rh[i], args.ws[i]))

\* C17: in ffmc and ffmc_arr the moisture after the rain step is the Eq. 1
\* moisture unchanged for prec <= 0.5; for prec > 0.5 it is that moisture
\* plus the absorption formula at ra = prec - 0.5, plus the polynomial
\* correction exactly when the pre-rain moisture is above 150; it is at
\* most 250; and the value returned is the one computed from it.
C17_RainStep ==
  /\ fam = "ffmc" /\ sc.i # 0 /\ sc.res.kind = "ok" =>
       /\ ffmc_wmo(FFMC_COEFFICIENT, args.ffmc_yda[sc.i], args.prec[sc.i])
            = StatedRain(Eq1Of(args.ffmc_yda[sc.i]), args.prec[sc.i])
       /\ StatedRain(Eq1Of(args.ffmc_yda[sc.i]), args.prec[sc.i]) <= 250 * Q
       /\ sc.res.val
            = FfmcFrom(StatedRain(Eq1Of(args.ffmc_yda[sc.i]), args.prec[sc.i]), sc.i)
  /\ fam = "ffmc" /\ arr.kind = "ok" =>
       \A i \in 1..ArrLen :
         /\ ffmc_arr_wmo(args.ffmc_yda[i], args.prec[i])
              = StatedRain(Eq1ArrOf(args.ffmc_yda[i]), args.prec[i])
         /\ StatedRain(Eq1ArrOf(args.ffmc_yda[i]), args.prec[i]) <= 250 * Q
         /\ arr.val[i]
              = FfmcArrFrom(StatedRain(Eq1ArrOf(args.ffmc_yda[i]), args.prec[i]), i)

\* ffmc has returned for a day of 3 mm of rain on a moisture above 150
\* (ffmc_yda = 10), which the rain step raised but not to the cap.
C17_Witness ==
  /\ fam = "ffmc" /\ sc.i # 0 /\ sc.res.kind = "ok"
  /\ args.ffmc_yda[sc.i] = 10 * Q /\ args.prec[sc.i] = 3 * Q
  /\ Eq1Of(10 * Q) > 150 * Q
  /\ StatedRain(Eq1Of(10 * Q), 3 * Q) > Eq1Of(10 * Q) + ffmc_absorb(Eq1Of(10 * Q), 2500)
  /\ StatedRain(Eq1Of(10 * Q), 3 * Q) < 250 * Q

\* ---- C18 ----------------------------------------------------------------
\* The two guarded conditions of the regime selection.
Wetting(wmo, ed, ew) == wmo < ed /\ wmo < ew
Drying(wmo, ed) == wmo > ed

\* The Eq. 8 and Eq. 9 values for cell i.
Eq8Of(wmo, ew, i) ==
  ew - ffmc_quot(ew - wmo, ffmc_lograte((100 * Q - args.rh[i]) \div 100, args.ws[i]),
                 args.temp[i])
Eq9Of(wmo, ed, i) ==
  ed + ffmc_quot(wmo - ed, ffmc_lograte(args.rh[i] \div 100, args.ws[i]), args.temp[i])

\* The outcome the claim states: Eq. 8, Eq. 9 or wmo itself.
StatedRegime(wmo, ed, ew, i) ==
  IF Wetting(wmo, ed, ew) THEN Eq8Of(wmo, ew, i)
  ELSE IF Drying(wmo, ed) THEN Eq9Of(wmo, ed, i)
  ELSE wmo

\* The two updates in the other order: Eq. 9 first, then Eq. 8.
Eq9First(wmo, ed, i) == IF Drying(wmo, ed) THEN Eq9Of(wmo, ed, i) ELSE wmo
OtherOrder(wmo, ed, ew, i) ==
  IF Wetting(wmo, ed, ew) THEN Eq8Of(wmo, ew, i) ELSE Eq9First(wmo, ed, i)

\* The claim for one cell and one moisture wmo after the rain step.
RegimeAt(wmo, ed, ew, i) ==
  /\ ~(Wetting(wmo, ed, ew) /\ Drying(wmo, ed))
  /\ ffmc_regime(wmo, ed, ew, args.temp[i], args.rh[i], args.ws[i])
       = StatedRegime(wmo, ed, ew, i)
  /\ ffmc_arr_regime(wmo, ed, ew, args.temp[i], args.rh[i], args.ws[i])
       = StatedRegime(wmo, ed, ew, i)
  /\ OtherOrder(wmo, ed, ew, i) = StatedRegime(wmo, ed, ew, i)

\* C18: the moisture after a day is the Eq. 8 value when wmo < ed and
\* wmo < ew, the Eq. 9 value when wmo > ed, and wmo itself otherwise; the
\* two conditions never hold together, the two updates give the same in
\* either order, ffmc_arr selects as ffmc does, and the value each returns
\* is Eq. 10 of the moisture so selected.
C18_RegimeSelection ==
  /\ fam = "ffmc" /\ sc.i # 0 /\ sc.res.kind = "ok" =>
       /\ RegimeAt(ffmc_wmo(FFMC_COEFFICIENT, args.ffmc_yda[sc.i], args.prec[sc.i]),
                   ffmc_ed(args.temp[sc.i], args.rh[sc.i]),
                   ffmc_ew(args.temp[sc.i], args.rh[sc.i]), sc.i)
       /\ sc.res.val =
            ffmc_eq10(FFMC_COEFFICIENT,
                      StatedRegime(ffmc_wmo(FFMC_COEFFICIENT, args.ffmc_yda[sc.i],
                                            args.prec[sc.i]),
                                   ffmc_ed(args.temp[sc.i], args.rh[sc.i]),
                                   ffmc_ew(args.temp[sc.i], args.rh[sc.i]), sc.i))
  /\ fam = "ffmc" /\ arr.kind = "ok" =>
       \A i \in 1..ArrLen :
         /\ RegimeAt(ffmc_arr_wmo(args.ffmc_yda[i], args.prec[i]),
                     ffmc_ed(args.temp[i], args.rh[i]),
                     ffmc_ew(args.temp[i], args.rh[i]), i)
         /\ arr.val[i] =
              ffmc_arr_eq10(StatedRegime(ffmc_arr_wmo(args.ffmc_yda[i], args.prec[i]),
                                         ffmc_ed(args.temp[i], args.rh[i]),
                                         ffmc_ew(args.temp[i], args.rh[i]), i))

\* The regime of the scalar call on cell sc.i.
CallWmo == ffmc_wmo(FFMC_COEFFICIENT, args.ffmc_yda[sc.i], args.prec[sc.i])
CallEd == ffmc_ed(args.temp[sc.i], args.rh[sc.i])
CallEw == ffmc_ew(args.temp[sc.i], args.rh[sc.i])

\* ffmc has returned for a cell between the equilibria (ew <= wmo <= ed,
\* ffmc_yda = 89 at 17 C and 42 %), where the moisture is left as it is.
C18_Witness ==
  /\ fam = "ffmc" /\ sc.i # 0 /\ sc.res.kind = "ok"
  /\ args.ffmc_yda[sc.i] = 89 * Q /\ args.prec[sc.i] = 0
  /\ ~Wetting(CallWmo, CallEd, CallEw) /\ ~Drying(CallWmo, CallEd)
  /\ CallEw < CallWmo /\ CallWmo < CallEd
  /\ sc.res.val = ffmc_eq10(FFMC_COEFFICIENT, CallWmo)

\* ---- C19 ----------------------------------------------------------------
\* pe of the scalar call on cell i: Eq. 22 with the day length the call
\* took, clamped at 0.
DcPe(i) ==
  Floor0(dc_eq22(dc_temp(args.temp[i]),
                 dc_daylength(args.lat[i], args.mon.v - 1, args.mon.v,
                              args.lat_adjust).fl))

\* max(dr0, 0) of cell i, for prec > 2.8 (where the argument of the
\* logarithm is above 1).
DcDr0(i) ==
  Floor0(args.dc_yda[i] - 400 * Ln(dc_logarg(args.dc_yda[i], args.prec[i])))

\* C19: on every valid input dc returns; with prec <= 2.8 it returns
\* dc_yda + pe with pe >= 0 the clamped evapotranspiration, so not less than
\* dc_yda, and dr0 has no part in it; with prec > 2.8 it returns
\* max(dr0, 0) + pe; the value returned is >= 0.
C19_DcDryDay ==
  fam = "dc" /\ sc.i # 0 /\ ScalarOffences(sc.i) = {} =>
    /\ sc.res.kind = "ok"
    /\ args.prec[sc.i] <= 2800 =>
         /\ sc.res.val = args.dc_yda[sc.i] + DcPe(sc.i)
         /\ sc.res.val >= args.dc_yda[sc.i]
    /\ args.prec[sc.i] > 2800 => sc.res.val = DcDr0(sc.i) + DcPe(sc.i)
    /\ sc.res.val >= 0

\* The same for the calls that return.
C19_WhenReturned ==
  fam = "dc" /\ sc.i # 0 /\ sc.res.kind = "ok" =>
    /\ args.prec[sc.i] <= 2800 =>
         /\ sc.res.val = args.dc_yda[sc.i] + DcPe(sc.i)
         /\ sc.res.val >= args.dc_yda[sc.i]
    /\ args.prec[sc.i] > 2800 => sc.res.val = DcDr0(sc.i) + DcPe(sc.i)
    /\ sc.res.val >= 0

\* ---- C20 ----------------------------------------------------------------
\* The three cases of dmc_yda for the coefficient b, and the b of each.
BCases(dmc_yda) ==
  << [hit |-> dmc_yda <= 33 * Q,
      b |-> FDiv(100 * Q, 500 + Scl(dmc_yda, 3, 10))],
     [hit |-> dmc_yda > 33 * Q /\ dmc_yda <= 65 * Q,
      b |-> 14 * Q - Scl(Ln(Max2(dmc_yda, 1)), 13, 10)],
     [hit |-> dmc_yda > 65 * Q,
      b |-> Scl(Ln(Max2(dmc_yda, 1)), 62, 10) - 17200] >>

\* Exactly one of the three cases holds.
OneBCase(dmc_yda) == Cardinality({k \in 1..3 : BCases(dmc_yda)[k].hit}) = 1

\* b of the case that holds.
StatedB(dmc_yda) ==
  BCases(dmc_yda)[CHOOSE k \in 1..3 : BCases(dmc_yda)[k].hit].b

\* pr as the claim states it: dmc_yda for prec <= 1.5, else Eq. 15 of the
\* moisture after rain with the b of the case of dmc_yda.
StatedPr(prec, dmc_yda) ==
  IF prec <= 1500 THEN dmc_yda
  ELSE Scl(5635 - Ln(dmc_wmr20(Scl(prec, 92, 100) - 1270, dmc_yda, StatedB(dmc_yda))),
           4343, 100)

\* rk of the scalar call and of the array call for cell i.
DmcRk(i) ==
  dmc_eq16(dmc_temp(args.temp[i]), args.rh[i],
           dmc_daylength(args.lat[i], ScalarMon(args.mon).v - 1, args.lat_adjust,
                         DmcOrder).ell)
DmcArrRk(i) ==
  dmc_eq16(dmc_arr_temp(args.temp[i]), args.rh[i],
           dmc_arr_daylength(args.lat[i], ArrayMon(args.mon).v, args.lat_adjust,
                             DmcOrder).ell)

\* C20: in dmc and dmc_arr pr is dmc_yda for prec <= 1.5 and, for
\* prec > 1.5, the Eq. 15 value of the moisture after rain with b from
\* exactly one of the three cases of dmc_yda (<= 33, > 33 and <= 65, > 65);
\* the value returned is max(pr, 0) + rk, clamped at 0.
C20_DmcRain ==
  /\ fam = "dmc" /\ sc.i # 0 /\ sc.res.kind = "ok" =>
       /\ OneBCase(args.dmc_yda[sc.i])
       /\ dmc_pr(args.prec[sc.i], args.dmc_yda[sc.i])
            = StatedPr(args.prec[sc.i], args.dmc_yda[sc.i])
       /\ sc.res.val
            = Floor0(Floor0(StatedPr(args.prec[sc.i], args.dmc_yda[sc.i])) + DmcRk(sc.i))
       /\ sc.res.val >= 0
  /\ fam = "dmc" /\ arr.kind = "ok" =>
       \A i \in 1..ArrLen :
         /\ dmc_arr_pr(args.prec[i], args.dmc_yda[i])
              = StatedPr(args.prec[i], args.dmc_yda[i])
         /\ arr.val[i]
              = Floor0(Floor0(StatedPr(args.prec[i], args.dmc_yda[i])) + DmcArrRk(i))
         /\ arr.val[i] >= 0

\* dmc has returned for 10 mm of rain on dmc_yda = 50, the middle case of
\* b, and the rain brought pr below dmc_yda.
C20_Witness ==
  /\ fam = "dmc" /\ sc.i # 0 /\ sc.res.kind = "ok"
  /\ args.dmc_yda[sc.i] = 50 * Q /\ args.prec[sc.i] = 10 * Q
  /\ BCases(50 * Q)[2].hit
  /\ StatedPr(10 * Q, 50 * Q) > 0 /\ StatedPr(10 * Q, 50 * Q) < 50 * Q

\* ---- C21 ----------------------------------------------------------------
\* bb and the value returned as the claim states them.
StatedBb(isi0, bui0) ==
  IF bui0 > 80 * Q THEN fwi_eq28b(isi0, bui0) ELSE fwi_eq28a(isi0, bui0)
StatedTransform(bb) ==
  IF bb <= Q THEN bb
  ELSE Exp(Scl(Pow(Scl(Ln(bb), 434, 1000), 647, 1000), 272, 100))
StatedFwi(isi0, bui0) == StatedTransform(StatedBb(isi0, bui0))

\* What C21 says of a value v returned for (isi, bui).
FwiAsStated(isi0, bui0, v) ==
  /\ v = StatedFwi(isi0, bui0)
  /\ isi0 = 0 => v = 0
  /\ v >= 0

\* C21: fwi and fwi_arr take bb from the exponential-saturation form
\* exactly when bui > 80 and from the power law otherwise, return bb when
\* bb <= 1 and the log-then-power transform of it otherwise; so
\* fwi(0, bui) is 0 for every bui >= 0, and no result is negative.
C21_FwiBranches ==
  /\ fam = "fwi" /\ sc.i # 0 /\ args.isi[sc.i] >= 0 /\ args.bui[sc.i] >= 0 =>
       /\ sc.res.kind = "ok"
       /\ FwiAsStated(args.isi[sc.i], args.bui[sc.i], sc.res.val)
  /\ fam = "fwi" /\ arr.kind = "ok" =>
       \A i \in 1..ArrLen : FwiAsStated(args.isi[i], args.bui[i], arr.val[i])

\* The same for the calls that return.
C21_WhenReturned ==
  /\ fam = "fwi" /\ sc.i # 0 /\ sc.res.kind = "ok" =>
       FwiAsStated(args.isi[sc.i], args.bui[sc.i], sc.res.val)
  /\ fam = "fwi" /\ arr.kind = "ok" =>
       \A i \in 1..ArrLen : FwiAsStated(args.isi[i], args.bui[i], arr.val[i])

\* ---- C22 ----------------------------------------------------------------
\* The wind factor as the claim states it.
StatedFW(ws, fbp_mod) ==
  IF fbp_mod /\ ws >= 40 * Q THEN isi_fW_fbp(ws) ELSE isi_fW_std(ws)

\* Eq. 26 on the stated wind factor, with the moisture content of each
\* function (Eq. 10 with its own coefficient), and no limit applied.
IsiFrom(ffmc0, ws, fbp_mod) ==
  isi_eq26(ffmc_eq1(FFMC_COEFFICIENT, ffmc0), StatedFW(ws, fbp_mod))
IsiArrFrom(ffmc0, ws, fbp_mod) ==
  isi_eq26(FDiv(FMul(101 * Q - ffmc0, ARR_COEFFICIENT), 59500 + ffmc0),
           StatedFW(ws, fbp_mod))

\* C22: isi and isi_arr use the alternate saturating wind factor exactly
\* when fbp_mod is set and ws >= 40 (40 included) and the standard
\* exponential one otherwise, at every wind speed when fbp_mod is unset;
\* both make the same choice at every element, and the value returned is
\* 0.208 * fW * fF itself, not clamped.
C22_WindFactor ==
  /\ fam = "isi" /\ sc.i # 0 /\ sc.res.kind = "ok" =>
       sc.res.val = IsiFrom(args.ffmc[sc.i], args.ws[sc.i], args.fbp_mod)
  /\ fam = "isi" /\ arr.kind = "ok" =>
       \A i \in 1..ArrLen :
         arr.val[i] = IsiArrFrom(args.ffmc[i], args.ws[i], args.fbp_mod)

\* isi has returned at ws = 40 with fbp_mod set, the alternate factor gives
\* another value there than the standard one, isi_arr has returned for the
\* same arguments, and an element of it is above 101.
C22_Witness ==
  /\ fam = "isi" /\ args.fbp_mod /\ sc.i # 0 /\ sc.res.kind = "ok"
  /\ args.ws[sc.i] = 40 * Q
  /\ sc.res.val =
       isi_eq26(ffmc_eq1(FFMC_COEFFICIENT, args.ffmc[sc.i]), isi_fW_fbp(40 * Q))
  /\ sc.res.val #
       isi_eq26(ffmc_eq1(FFMC_COEFFICIENT, args.ffmc[sc.i]), isi_fW_std(40 * Q))
  /\ arr.kind = "ok"
  /\ \E i \in 1..ArrLen : arr.val[i] > 101 * Q

\* ---- C23 ----------------------------------------------------------------
\* A code or index r was returned and is a number >= 0.
NonNegative(r) == r.kind = "ok" /\ r.val >= 0

\* C23: carried from day to day under valid weather from codes in domain,
\* ffmc stays in [0, 101] and dmc, dc stay >= 0 after any number of days,
\* and isi, bui and fwi of the day's codes are returned, isi and bui >= 0.
C23_PipelineClosed ==
  fam = "pipeline" =>
    /\ NonNegative(pipe.ffmc) /\ pipe.ffmc.val <= 101 * Q
    /\ NonNegative(pipe.dmc)
    /\ NonNegative(pipe.dc)
    /\ pipe.n > 0 =>
         /\ NonNegative(pipe.isi)
         /\ NonNegative(pipe.bui)
         /\ pipe.fwi.kind = "ok"

\* The same on the days whose three codes were returned.
C23_WhenReturned ==
  fam = "pipeline" /\ CodesReturned(pipe) =>
    /\ NonNegative(pipe.ffmc) /\ pipe.ffmc.val <= 101 * Q
    /\ NonNegative(pipe.dmc)
    /\ NonNegative(pipe.dc)
    /\ pipe.n > 0 =>
         /\ NonNegative(pipe.isi)
         /\ NonNegative(pipe.bui)
         /\ pipe.fwi.kind = "ok"

\* A second day on which dc raises though every code of the first was in
\* domain.
C23_SecondDay == ~(fam = "pipeline" /\ pipe.n = 2 /\ pipe.dc.kind = "ValueError")

\* ---- C24 ----------------------------------------------------------------
\* C24: dc is total on its domain: for every dc_yda >= 0, rh in [0, 100],
\* prec >= 0, integer month 1..12, latitude and lat_adjust it returns a
\* number; it raises neither for a table index out of range nor for the
\* logarithm of a number that is not positive, whatever prec is.
C24_DcTotal ==
  fam = "dc" /\ sc.i # 0 /\ ScalarOffences(sc.i) = {} =>
    /\ sc.res.kind # "IndexError"
    /\ sc.res.kind # "ValueError"
    /\ sc.res.kind = "ok"

\* dc raises on a valid input in two cases only: month 12 read from fl02,
\* and an argument of the logarithm that is not positive.
C24_TwoCauses ==
  fam = "dc" /\ sc.i # 0 /\ ScalarOffences(sc.i) = {} /\ sc.res.kind # "ok" =>
    \/ /\ sc.res.kind = "IndexError"
       /\ args.mon.v = 12 /\ args.lat_adjust /\ args.lat[sc.i] <= -20 * Q
    \/ /\ sc.res.kind = "ValueError" /\ sc.res.field = "math domain error"
       /\ dc_logarg(args.dc_yda[sc.i], args.prec[sc.i]) <= 0
       /\ ~(args.mon.v = 12 /\ args.lat_adjust /\ args.lat[sc.i] <= -20 * Q)

\* ---- C25 ----------------------------------------------------------------
\* What C25 says of a value v returned for yesterday's code dmc_yda on a
\* day with drying term rk.
NeverDecreases(dmc_yda, rk, v) == rk >= 0 /\ v = dmc_yda + rk /\ v >= dmc_yda

\* C25: on a day with prec <= 1.5, for every valid input, temperature and
\* latitude, rk >= 0 and dmc returns dmc_yda + rk, not less than dmc_yda;
\* the same at every element of dmc_arr.
C25_DmcNeverDecreases ==
  /\ fam = "dmc" /\ sc.i # 0 /\ sc.res.kind = "ok" /\ args.prec[sc.i] <= 1500 =>
       NeverDecreases(args.dmc_yda[sc.i], DmcRk(sc.i), sc.res.val)
  /\ fam = "dmc" /\ arr.kind = "ok" =>
       \A i \in 1..ArrLen :
         args.prec[i] <= 1500 =>
           NeverDecreases(args.dmc_yda[i], DmcArrRk(i), arr.val[i])

\* The scalar half of it.
C25_ScalarNeverDecreases ==
  fam = "dmc" /\ sc.i # 0 /\ sc.res.kind = "ok" /\ args.prec[sc.i] <= 1500 =>
    NeverDecreases(args.dmc_yda[sc.i], DmcRk(sc.i), sc.res.val)

====
